---- MODULE Spec2Model ----
(***************************************************************************)
(* Model of the LLM-D calendar meeting notifier                            *)
(* (src/calendar-meeting-notifier.js): the per-minute calendar tick, the   *)
(* +/-90 s meeting-window detector, the PropertiesService-backed           *)
(* duplicate-suppression store and its adaptive / daily cleanup passes.    *)
(*                                                                         *)
(* Instants are JavaScript Date values: integer milliseconds.  All         *)
(* `new Date()` reads of one handler invocation return the same instant.   *)
(***************************************************************************)
EXTENDS Integers, Sequences, FiniteSets, TLC

VARIABLES
    now,          \* wall clock, ms                       (new Date())
    props,        \* PropertiesService script properties: key -> stored string
    calendar,     \* events of the shared calendar, in listing order
    debugMode,    \* CONFIG.DEBUG_MODE
    sent,         \* every UrlFetchApp.fetch POST made so far, in order
    lastTick,     \* what the last checkCalendarAndNotify did
    lastCleanup,  \* what the last cleanupOldNotificationRecords did
    lastDaily,    \* what the last dailyCleanupNotificationRecords did
    running,      \* invocations of checkCalendarAndNotify in progress: where each one is
    overlapped,   \* an invocation was started while another one was in progress
    drive,        \* Drive files: id -> title, parent folders, youtube_uploaded property
    uploads,      \* ids of the files YouTube.Videos.insert has accepted, in order
    posted,       \* every UrlFetchApp.fetch POST of the file organizer, in order
    lastRun,      \* what the last organizeMeetingFiles did
    triggers,     \* the project's installed triggers: handler function of each, in order
    lastSetup,    \* what the last setup call did
    lastHealth,   \* what the last monitorStorageHealth did
    lastCall      \* the last call of a function tried on its own: arguments and result

vars == <<now, props, calendar, debugMode, sent, lastTick, lastCleanup, lastDaily,
          running, overlapped, drive, uploads, posted, lastRun, triggers, lastSetup,
          lastHealth, lastCall>>

\* the state of the file organizer, which the calendar notifier leaves alone
moverVars == <<drive, uploads, posted, lastRun>>

\* what the actions of the calendar tick taken as a whole leave alone
raceVars == <<running, overlapped, moverVars>>

\* the state of the setup and monitoring functions, which no trigger handler touches
toolVars == <<triggers, lastSetup, lastHealth, lastCall>>

-----------------------------------------------------------------------------
(* Units and program constants                                             *)

SecondMs == 1000
MinuteMs == 60 * SecondMs
HourMs   == 60 * MinuteMs

ToleranceSeconds == 90      \* Math.abs(secondsUntilStart) <= 90
SearchBackSeconds == 90     \* searchStart = now - 90 * 1000
SearchAheadMinutes == 3     \* searchEnd = now + 3 * 60 * 1000
CleanupEveryMinutes == 10   \* currentMinute % 10 === 0
AggressiveCount == 45       \* notificationRecords.length >= 45
ModerateCount == 30         \* notificationRecords.length >= 30
AggressiveHours == 4
ModerateHours == 8
NormalHours == 24
EmergencyCount == 48        \* remainingRecords >= 48
EmergencyKeep == 40         \* recordsToRemove = remainingRecords - 40
DailyHours == 6             \* daily cleanup cutoff
DailyAlertCount == 30       \* remainingRecords > 30
PropertyQuota == 50         \* PropertiesService property limit

NaN == -1                   \* getTime() of an Invalid Date (no valid instant is negative)

-----------------------------------------------------------------------------
(* CONFIG (config.example.js): the ordered prefix table and the webhooks.  *)
(* A title or prefix is the sequence of its words.                         *)

CommunityPrefix == <<"[PUBLIC]", "llm-d", "Community", "Meeting">>

MEETING_CONFIGS ==
    << [prefix |-> <<"[PUBLIC]", "llm-d", "sig-autoscaling">>,
        targetFolderId |-> "folder-sig-autoscaling",
        slackWebhook |-> "hook-sig-autoscaling", slackChannel |-> "#sig-autoscaling",
        uploadToYoutube |-> FALSE],
       [prefix |-> <<"[PUBLIC]", "llm-d", "sig-benchmarking">>,
        targetFolderId |-> "folder-sig-benchmarking",
        slackWebhook |-> "hook-sig-benchmarking", slackChannel |-> "#sig-benchmarking",
        uploadToYoutube |-> FALSE],
       [prefix |-> CommunityPrefix,
        targetFolderId |-> "folder-community",
        slackWebhook |-> "hook-community", slackChannel |-> "#community",
        uploadToYoutube |-> TRUE] >>

DEFAULT_WEBHOOK == "hook-default"

NoConfig ==
    [prefix |-> <<>>, targetFolderId |-> "", slackWebhook |-> "", slackChannel |-> "",
     uploadToYoutube |-> FALSE]

\* title.startsWith(prefix)
StartsWith(title, prefix) ==
    /\ Len(prefix) <= Len(title)
    /\ SubSeq(title, 1, Len(prefix)) = prefix

\* variant: the loop goes on after a hit, so the last matching entry is returned
FirstHit_Last(hits) == CHOOSE i \in hits : \A j \in hits : i >= j

\* the entry at which the for-loop over Object.entries(CONFIG.MEETING_CONFIGS) returns
FirstHit(hits) == CHOOSE i \in hits : \A j \in hits : i <= j

\* the loop of findMatchingMeetingConfig over a table
findMatchingMeetingConfigIn(table, title) ==
    LET hits == {i \in 1..Len(table) : StartsWith(title, table[i].prefix)}
    IN  IF hits = {} THEN NoConfig ELSE table[FirstHit(hits)]

\* findMatchingMeetingConfig: first entry, in table order, whose prefix leads the title
findMatchingMeetingConfig(title) == findMatchingMeetingConfigIn(MEETING_CONFIGS, title)

\* CONFIG.MEETING_CONFIGS['[PUBLIC] llm-d Community Meeting']
CommunityConfig ==
    LET hits == {i \in 1..Len(MEETING_CONFIGS) : MEETING_CONFIGS[i].prefix = CommunityPrefix}
    IN  IF hits = {} THEN NoConfig ELSE MEETING_CONFIGS[CHOOSE i \in hits : TRUE]

\* variant: every meeting goes to its own channel only
getChannelsToNotify_OwnOnly(meetingConfig) ==
    <<[webhook |-> meetingConfig.slackWebhook, name |-> meetingConfig.slackChannel]>>

\* getChannelsToNotify
getChannelsToNotify(meetingConfig) ==
    LET own == [webhook |-> meetingConfig.slackWebhook, name |-> meetingConfig.slackChannel]
    IN  IF meetingConfig.prefix = CommunityPrefix
        THEN <<own>>
        ELSE IF CommunityConfig # NoConfig
             THEN <<own, [webhook |-> CommunityConfig.slackWebhook,
                          name |-> CommunityConfig.slackChannel]>>
             ELSE <<own>>

-----------------------------------------------------------------------------
(* Dates, JSON and property keys                                           *)

\* Date.prototype.toISOString: "....ss.mmmZ", whole seconds and milliseconds
toISOString(t) == <<t \div SecondMs, t % SecondMs>>

\* new Date(isoString).getTime(); anything that is not an ISO string gives Invalid Date
NewDate(s) == IF s = <<>> THEN NaN ELSE s[1] * SecondMs + s[2]

\* a < b on Dates: false whenever either side is an Invalid Date
DateLess(a, b) == a # NaN /\ b # NaN /\ a < b

\* variant: the key is made of the event id alone
getMeetingNotificationKey_IdOnly(meeting) ==
    [pfx |-> "notified_", id |-> meeting.id, iso |-> <<0, 0>>]

\* getMeetingNotificationKey: `notified_${eventId}_${startTime.toISOString()}`
getMeetingNotificationKey(meeting) ==
    [pfx |-> "notified_", id |-> meeting.id, iso |-> toISOString(meeting.startTime)]

\* key.startsWith('notified_')
IsNotificationKey(key) == key.pfx = "notified_"

NotificationKeys(p) == {k \in DOMAIN p : IsNotificationKey(k)}

\* Stored strings.  "json": JSON.stringify of a record object; "nodate": a JSON
\* object whose notifiedAt is missing or no date; "null": the text null; "zero":
\* a falsy JSON scalar (0, false, ""); "garbage": not JSON; "empty": the empty string.
JSONstringify(recordData) ==
    [kind |-> "json", meetingTitle |-> recordData.meetingTitle,
     meetingStart |-> recordData.meetingStart, notifiedAt |-> recordData.notifiedAt]

StoredText(kind) ==
    [kind |-> kind, meetingTitle |-> <<>>, meetingStart |-> <<>>, notifiedAt |-> <<>>]

\* JSON.parse: threw, or the value; truthy: the value as a condition;
\* deref: whether value.notifiedAt can be read (null.notifiedAt throws a TypeError)
JSONparse(value) ==
    [threw      |-> value.kind \in {"garbage", "empty"},
     truthy     |-> value.kind \in {"json", "nodate"},
     deref      |-> value.kind \in {"json", "nodate", "zero"},
     notifiedAt |-> IF value.kind = "json" THEN value.notifiedAt ELSE <<>>,
     meetingTitle |-> value.meetingTitle]

Abs(x) == IF x < 0 THEN -x ELSE x

-----------------------------------------------------------------------------
(* The property store (PropertiesService.getScriptProperties())            *)

\* variant: the store never refuses a key
QuotaExceeded_Never(p, key) == FALSE

\* the store refuses a new key once every slot of its quota is taken
QuotaExceeded(p, key) == key \notin DOMAIN p /\ Cardinality(DOMAIN p) >= PropertyQuota

\* properties.setProperty(key, value), when it does not throw
setProperty(p, key, value) == [k \in DOMAIN p \cup {key} |-> IF k = key THEN value ELSE p[k]]

\* properties.deleteProperty(key) for every key of a set (a missing key is a no-op)
deleteProperties(p, keys) == [k \in DOMAIN p \ keys |-> p[k]]

-----------------------------------------------------------------------------
(* Outgoing webhook calls.  A handler invocation is threaded through a     *)
(* record st = [props, sent, fetches]; fetches counts the UrlFetchApp.fetch *)
(* calls the invocation has made.  fault = [at, how]: the at-th fetch of   *)
(* the invocation throws ("throw") or answers with a status other than 200 *)
(* ("non200"); at = 0 is no fault.                                         *)

NoKey == [pfx |-> "", id |-> 0, iso |-> <<0, 0>>]

NoFault == [at |-> 0, how |-> "throw"]

\* UrlFetchApp.fetch(webhook, {method: 'POST', payload}): the POST is logged with its outcome
UrlFetch(st, webhook, kind, about, channel, debugPrefix, fault) ==
    LET n == st.fetches + 1
        outcome == IF fault.at = n THEN fault.how ELSE "ok"
    IN  [st |-> [st EXCEPT !.fetches = n,
                           !.sent = Append(@, [webhook |-> webhook, kind |-> kind,
                                               about |-> about, channel |-> channel,
                                               debugPrefix |-> debugPrefix,
                                               outcome |-> outcome])],
         threw |-> outcome = "throw"]

\* variant: the debug flag adds the prefix but does not change the webhook
sendSlackNotification_NoReroute(st, webhookUrl, about, channelName, dbg, fault) ==
    UrlFetch(st, webhookUrl, "meeting", about, channelName, dbg, fault)

\* sendSlackNotification: debug mode reroutes to DEFAULT_WEBHOOK with a visible prefix;
\* a fetch that throws is rethrown, another status than 200 is only logged
sendSlackNotification(st, webhookUrl, about, channelName, dbg, fault) ==
    LET targetWebhook == IF dbg THEN DEFAULT_WEBHOOK ELSE webhookUrl
    IN  UrlFetch(st, targetWebhook, "meeting", about, channelName, dbg, fault)

\* variant: a failing error report is thrown on to the caller
sendErrorNotification_Rethrows(st, about, fault) ==
    UrlFetch(st, DEFAULT_WEBHOOK, "error", about, "", FALSE, fault)

\* sendErrorNotification: posts to DEFAULT_WEBHOOK; its own try/catch swallows a
\* fetch that throws, so nothing reaches the caller
sendErrorNotification(st, about, fault) ==
    [st |-> UrlFetch(st, DEFAULT_WEBHOOK, "error", about, "", FALSE, fault).st,
     threw |-> FALSE]

\* sendDebugMessage: posts to DEFAULT_WEBHOOK and swallows its own failure
sendDebugMessage(st, fault) ==
    UrlFetch(st, DEFAULT_WEBHOOK, "debug", NoKey, "", FALSE, fault).st

-----------------------------------------------------------------------------
(* Meeting-window detector                                                 *)

\* calendar.getEvents(searchStart, searchEnd): the events that overlap the range
getEvents(cal, searchStart, searchEnd) ==
    SelectSeq(cal, LAMBDA e : e.endTime > searchStart /\ e.startTime < searchEnd)

\* Math.floor((startTime.getTime() - now.getTime()) / 1000)
secondsUntilStart(startTime, t) == (startTime - t) \div SecondMs

\* variant: the boundary second is left out
StartingNow_Strict(startTime, t) == Abs(secondsUntilStart(startTime, t)) < ToleranceSeconds

\* variant: a tolerance of 20 seconds, less than half the trigger period
StartingNow_Narrow(startTime, t) == Abs(secondsUntilStart(startTime, t)) <= 20

\* Math.abs(secondsUntilStart) <= 90
StartingNow(startTime, t) == Abs(secondsUntilStart(startTime, t)) <= ToleranceSeconds

\* variant: an occurrence that matches no prefix is announced as a community meeting
getUpcomingMeetings_Fallback(cal, t) ==
    LET searchStart == t - SearchBackSeconds * SecondMs
        searchEnd == t + SearchAheadMinutes * MinuteMs
        events == getEvents(cal, searchStart, searchEnd)
        hits == SelectSeq(events, LAMBDA e : StartingNow(e.startTime, t))
    IN  [i \in 1..Len(hits) |->
            [id |-> hits[i].id, title |-> hits[i].title, startTime |-> hits[i].startTime,
             config |-> IF findMatchingMeetingConfig(hits[i].title) # NoConfig
                        THEN findMatchingMeetingConfig(hits[i].title)
                        ELSE CommunityConfig]]

\* getUpcomingMeetings: the fetched events that start within the tolerance and match a prefix
getUpcomingMeetings(cal, t) ==
    LET searchStart == t - SearchBackSeconds * SecondMs
        searchEnd == t + SearchAheadMinutes * MinuteMs
        events == getEvents(cal, searchStart, searchEnd)
        hits == SelectSeq(events, LAMBDA e :
                    /\ StartingNow(e.startTime, t)
                    /\ findMatchingMeetingConfig(e.title) # NoConfig)
    IN  [i \in 1..Len(hits) |->
            [id |-> hits[i].id, title |-> hits[i].title, startTime |-> hits[i].startTime,
             config |-> findMatchingMeetingConfig(hits[i].title)]]

-----------------------------------------------------------------------------
(* Duplicate-suppression store                                             *)

\* variant: the store is never consulted
hasAlreadyNotified_Blind(p, meeting) == [threw |-> FALSE, result |-> FALSE]

\* hasAlreadyNotified: getProperty(key); a non-empty value is JSON.parsed (which may
\* throw) and means "already notified"; no value, or the empty string, means "not yet"
hasAlreadyNotified(p, meeting) ==
    LET key == getMeetingNotificationKey(meeting)
        present == key \in DOMAIN p /\ p[key].kind # "empty"
        \* JSON.parse throws, or reading recordData.notifiedAt for the log line does
        threw == present /\ (JSONparse(p[key]).threw \/ ~JSONparse(p[key]).deref)
    IN  [threw |-> threw, result |-> present /\ ~threw]

\* variant: the store call fails only after the value was stored
recordNotificationSent_WritesAnyway(p, meeting, t, storeFault) ==
    LET key == getMeetingNotificationKey(meeting)
        recordData == [meetingTitle |-> meeting.title,
                       meetingStart |-> toISOString(meeting.startTime),
                       notifiedAt |-> toISOString(t)]
    IN  [threw |-> storeFault \/ QuotaExceeded(p, key),
         props |-> setProperty(p, key, JSONstringify(recordData))]

\* recordNotificationSent: setProperty(key, JSON.stringify({meetingTitle, meetingStart,
\* notifiedAt})); storeFault: the store call fails for a reason of its own
recordNotificationSent(p, meeting, t, storeFault) ==
    LET key == getMeetingNotificationKey(meeting)
        recordData == [meetingTitle |-> meeting.title,
                       meetingStart |-> toISOString(meeting.startTime),
                       notifiedAt |-> toISOString(t)]
        threw == storeFault \/ QuotaExceeded(p, key)
    IN  [threw |-> threw,
         props |-> IF threw THEN p ELSE setProperty(p, key, JSONstringify(recordData))]

\* the for-loop of processMeeting over channelsToNotify, from channel i on:
\* the first send that throws ends the loop
RECURSIVE SendToChannels(_, _, _, _, _, _)
SendToChannels(st, channels, i, about, dbg, fault) ==
    IF i > Len(channels) THEN [st |-> st, threw |-> FALSE]
    ELSE LET r == sendSlackNotification(st, channels[i].webhook, about,
                                        channels[i].name, dbg, fault)
         IN  IF r.threw THEN r
             ELSE SendToChannels(r.st, channels, i + 1, about, dbg, fault)

\* processMeeting: skip when already notified, else send to every channel and then
\* record; any exception on the way goes to the catch block, which calls
\* sendErrorNotification; threw: an exception leaves processMeeting
processMeeting(st, meeting, t, dbg, fault, storeFault) ==
    LET key == getMeetingNotificationKey(meeting)
        seen == hasAlreadyNotified(st.props, meeting)
        sends == SendToChannels(st, getChannelsToNotify(meeting.config), 1, key, dbg, fault)
        rec == recordNotificationSent(sends.st.props, meeting, t, storeFault)
        \* the store as the failed write left it
        failed == [sends.st EXCEPT !.props = rec.props]
        caught(s, outcome) ==
            LET e == sendErrorNotification(s, key, fault)
            IN  [st |-> e.st, outcome |-> outcome, threw |-> e.threw]
    IN  IF seen.threw THEN caught(st, "read-error")
        ELSE IF seen.result THEN [st |-> st, outcome |-> "skipped", threw |-> FALSE]
        ELSE IF sends.threw THEN caught(sends.st, "send-error")
        ELSE IF rec.threw THEN caught(failed, "write-error")
        ELSE [st |-> [sends.st EXCEPT !.props = rec.props], outcome |-> "notified",
              threw |-> FALSE]

\* the for-loop of checkCalendarAndNotify over meetingsStartingNow, from meeting i on;
\* an exception that leaves processMeeting ends the loop
RECURSIVE ProcessMeetings(_, _, _, _, _, _, _, _)
ProcessMeetings(st, meetings, i, t, dbg, fault, storeFault, outcomes) ==
    IF i > Len(meetings) THEN [st |-> st, outcomes |-> outcomes, threw |-> FALSE]
    ELSE LET r == processMeeting(st, meetings[i], t, dbg, fault, storeFault)
             done == Append(outcomes, [key |-> getMeetingNotificationKey(meetings[i]),
                                       outcome |-> r.outcome])
         IN  IF r.threw THEN [st |-> r.st, outcomes |-> done, threw |-> TRUE]
             ELSE ProcessMeetings(r.st, meetings, i + 1, t, dbg, fault, storeFault, done)

-----------------------------------------------------------------------------
(* Cleanup passes                                                          *)

\* variant: the thresholds are compared with > instead of >=
CutoffHours_Off(count) ==
    IF count > AggressiveCount THEN AggressiveHours
    ELSE IF count > ModerateCount THEN ModerateHours
    ELSE NormalHours

\* variant: the aggressive horizon is 2 hours
CutoffHours_Two(count) ==
    IF count >= AggressiveCount THEN 2
    ELSE IF count >= ModerateCount THEN ModerateHours
    ELSE NormalHours

\* cutoffHours of cleanupOldNotificationRecords, from notificationRecords.length
CutoffHours(count) ==
    IF count >= AggressiveCount THEN AggressiveHours
    ELSE IF count >= ModerateCount THEN ModerateHours
    ELSE NormalHours

\* variant: the emergency pass starts at the aggressive threshold already
EmergencyNeeded_Early(remainingRecords) == remainingRecords >= AggressiveCount

\* whether the emergency pass runs, from remainingRecords
EmergencyNeeded(remainingRecords) == remainingRecords >= EmergencyCount

\* recordsToRemove of the emergency pass
RecordsToRemove(remainingRecords) == remainingRecords - EmergencyKeep

\* variant: a value that failed to parse is kept as a record
ValidRecord_Lenient(value) == value.kind # "zero" /\ value.kind # "null"

\* record.data is truthy: the value parsed, and to a truthy value whose notifiedAt
\* could be read
ValidRecord(value) ==
    LET r == JSONparse(value) IN ~r.threw /\ r.deref /\ r.truthy

\* record.notifiedTime of a valid record: new Date(recordData.notifiedAt)
NotifiedTime(value) == NewDate(JSONparse(value).notifiedAt)

\* enumeration order of the store's keys (Object.entries(allProperties)): by start
\* instant, then event id
KeyBefore(j, k) ==
    \/ j.iso[1] < k.iso[1]
    \/ j.iso[1] = k.iso[1] /\ j.iso[2] < k.iso[2]
    \/ j.iso = k.iso /\ j.id < k.id

\* a comes before b in sortedRecords = records.sort((a, b) => a.notifiedTime - b.notifiedTime).
\* The sort is stable, so equal times keep enumeration order.  With an Invalid Date
\* the comparator returns NaN and the order is implementation-defined: nanFirst
\* picks whether such records end up before or after all the dated ones.
SortsBefore(all, a, b, nanFirst) ==
    LET ta == NotifiedTime(all[a])
        tb == NotifiedTime(all[b])
    IN  IF ta = NaN /\ tb = NaN THEN KeyBefore(a, b)
        ELSE IF ta = NaN THEN nanFirst
        ELSE IF tb = NaN THEN ~nanFirst
        ELSE ta < tb \/ (ta = tb /\ KeyBefore(a, b))

\* the keys of sortedRecords[0 .. n-1]
OldestRecords(all, valid, n, nanFirst) ==
    {k \in valid : Cardinality({j \in valid : SortsBefore(all, j, k, nanFirst)}) < n}

\* variant: the thresholds are compared with the number of all properties of the store
cleanupOldNotificationRecords_CountsAll(st, t, fault, nanFirst) ==
    LET all == st.props
        records == NotificationKeys(all)
        valid == {k \in records : ValidRecord(all[k])}
        corrupted == records \ valid
        count == Cardinality(DOMAIN all)
        cutoffHours == CutoffHours(count)
        cutoffTime == t - cutoffHours * HourMs
        aged == {k \in valid : DateLess(NotifiedTime(all[k]), cutoffTime)}
        remainingRecords == count - (Cardinality(corrupted) + Cardinality(aged))
        emergency == EmergencyNeeded(remainingRecords)
        removed == IF emergency
                   THEN OldestRecords(all, valid, RecordsToRemove(remainingRecords), nanFirst)
                   ELSE {}
        cleanedCount == Cardinality(corrupted) + Cardinality(aged) + Cardinality(removed)
        after == deleteProperties(all, corrupted \cup aged \cup removed)
        st1 == [st EXCEPT !.props = after]
        st2 == IF cleanedCount > 0 /\ cutoffHours < NormalHours
               THEN sendDebugMessage(st1, fault) ELSE st1
    IN  [st |-> st2,
         log |-> [ran |-> TRUE, at |-> t, before |-> all, startCount |-> count,
                  cutoffHours |-> cutoffHours, corrupted |-> corrupted, aged |-> aged,
                  remainingRecords |-> remainingRecords, emergency |-> emergency,
                  removed |-> removed, cleanedCount |-> cleanedCount,
                  afterKeys |-> NotificationKeys(after)]]

\* cleanupOldNotificationRecords at instant t
cleanupOldNotificationRecords(st, t, fault, nanFirst) ==
    LET all == st.props
        records == NotificationKeys(all)
        valid == {k \in records : ValidRecord(all[k])}
        corrupted == records \ valid
        count == Cardinality(records)
        cutoffHours == CutoffHours(count)
        cutoffTime == t - cutoffHours * HourMs
        aged == {k \in valid : DateLess(NotifiedTime(all[k]), cutoffTime)}
        remainingRecords == count - (Cardinality(corrupted) + Cardinality(aged))
        emergency == EmergencyNeeded(remainingRecords)
        removed == IF emergency
                   THEN OldestRecords(all, valid, RecordsToRemove(remainingRecords), nanFirst)
                   ELSE {}
        cleanedCount == Cardinality(corrupted) + Cardinality(aged) + Cardinality(removed)
        after == deleteProperties(all, corrupted \cup aged \cup removed)
        st1 == [st EXCEPT !.props = after]
        st2 == IF cleanedCount > 0 /\ cutoffHours < NormalHours
               THEN sendDebugMessage(st1, fault) ELSE st1
    IN  [st |-> st2,
         log |-> [ran |-> TRUE, at |-> t, before |-> all, startCount |-> count,
                  cutoffHours |-> cutoffHours, corrupted |-> corrupted, aged |-> aged,
                  remainingRecords |-> remainingRecords, emergency |-> emergency,
                  removed |-> removed, cleanedCount |-> cleanedCount,
                  afterKeys |-> NotificationKeys(after)]]

\* variant: the daily pass takes the horizon of the adaptive cleanup
dailyCleanupNotificationRecords_Adaptive(st, t, fault) ==
    LET all == st.props
        records == NotificationKeys(all)
        cutoffTime == t - CutoffHours(Cardinality(records)) * HourMs
        \* JSON.parse or reading recordData.notifiedAt throws: the catch deletes the key
        broken == {k \in records : JSONparse(all[k]).threw \/ ~JSONparse(all[k]).deref}
        aged == {k \in records \ broken : DateLess(NotifiedTime(all[k]), cutoffTime)}
        after == deleteProperties(all, broken \cup aged)
        remainingRecords == Cardinality(records) - Cardinality(broken \cup aged)
        st1 == [st EXCEPT !.props = after]
        st2 == IF remainingRecords > DailyAlertCount THEN sendDebugMessage(st1, fault) ELSE st1
    IN  [st |-> st2,
         log |-> [ran |-> TRUE, at |-> t, before |-> all, broken |-> broken,
                  aged |-> aged, afterKeys |-> NotificationKeys(after)]]

\* dailyCleanupNotificationRecords at instant t: fixed 6-hour cutoff
dailyCleanupNotificationRecords(st, t, fault) ==
    LET all == st.props
        records == NotificationKeys(all)
        cutoffTime == t - DailyHours * HourMs
        \* JSON.parse or reading recordData.notifiedAt throws: the catch deletes the key
        broken == {k \in records : JSONparse(all[k]).threw \/ ~JSONparse(all[k]).deref}
        aged == {k \in records \ broken : DateLess(NotifiedTime(all[k]), cutoffTime)}
        after == deleteProperties(all, broken \cup aged)
        remainingRecords == Cardinality(records) - Cardinality(broken \cup aged)
        st1 == [st EXCEPT !.props = after]
        st2 == IF remainingRecords > DailyAlertCount THEN sendDebugMessage(st1, fault) ELSE st1
    IN  [st |-> st2,
         log |-> [ran |-> TRUE, at |-> t, before |-> all, broken |-> broken,
                  aged |-> aged, afterKeys |-> NotificationKeys(after)]]

-----------------------------------------------------------------------------
(* Handlers                                                                *)

MaxSent == 4       \* no handler runs once this many POSTs have been logged
MaxFaultAt == 2    \* the injected fault hits one of the first MaxFaultAt fetches
MaxMinutes == 2    \* the clock stops this many minutes after MeetingTime

Faults == {NoFault} \cup {[at |-> n, how |-> h] : n \in 1..MaxFaultAt, h \in {"throw", "non200"}}

NoTick ==
    [ran |-> FALSE, at |-> 0, cleaned |-> FALSE, found |-> <<>>, outcomes |-> <<>>,
     sentBefore |-> 0, caught |-> FALSE]

EmptyProps == [k \in {} |-> StoredText("empty")]

NoCleanup ==
    [ran |-> FALSE, at |-> 0, before |-> EmptyProps, startCount |-> 0, cutoffHours |-> 0,
     corrupted |-> {}, aged |-> {}, remainingRecords |-> 0, emergency |-> FALSE,
     removed |-> {}, cleanedCount |-> 0, afterKeys |-> {}]

NoDaily ==
    [ran |-> FALSE, at |-> 0, before |-> EmptyProps, broken |-> {}, aged |-> {},
     afterKeys |-> {}]

\* new Date().getMinutes()
getMinutes(t) == (t \div MinuteMs) % 60

\* currentMinute % 10 === 0
CleanupDue(t) == getMinutes(t) % CleanupEveryMinutes = 0

\* checkCalendarAndNotify: one invocation by the every-minute trigger, at instant now
checkCalendarAndNotify(fault, storeFault, nanFirst) ==
    LET st0 == [props |-> props, sent |-> sent, fetches |-> 0]
        cleaned == CleanupDue(now)
        c == cleanupOldNotificationRecords(st0, now, fault, nanFirst)
        st1 == IF cleaned THEN c.st ELSE st0
        meetings == getUpcomingMeetings(calendar, now)
        r == ProcessMeetings(st1, meetings, 1, now, debugMode, fault, storeFault, <<>>)
        \* the catch block of checkCalendarAndNotify
        st2 == IF r.threw THEN sendErrorNotification(r.st, NoKey, fault).st ELSE r.st
    IN  /\ Len(sent) < MaxSent
        /\ props' = st2.props
        /\ sent' = st2.sent
        /\ lastCleanup' = IF cleaned THEN c.log ELSE lastCleanup
        /\ lastTick' = [ran |-> TRUE, at |-> now, cleaned |-> cleaned,
                        found |-> [i \in 1..Len(meetings) |->
                                      getMeetingNotificationKey(meetings[i])],
                        outcomes |-> r.outcomes,
                        sentBefore |-> Len(sent), caught |-> r.threw]
        /\ UNCHANGED <<now, calendar, debugMode, lastDaily, raceVars, toolVars>>

\* dailyCleanupNotificationRecords: one invocation by the daily trigger, at instant now
DailyCleanup(fault) ==
    LET st0 == [props |-> props, sent |-> sent, fetches |-> 0]
        d == dailyCleanupNotificationRecords(st0, now, fault)
    IN  /\ Len(sent) < MaxSent
        /\ props' = d.st.props
        /\ sent' = d.st.sent
        /\ lastDaily' = d.log
        /\ UNCHANGED <<now, calendar, debugMode, lastTick, lastCleanup, raceVars, toolVars>>

\* clearAllNotificationRecords, run by hand: deletes every notification record and
\* reports the count with sendDebugMessage
clearAllNotificationRecords(fault) ==
    LET st0 == [props |-> props, sent |-> sent, fetches |-> 0]
        cleared == NotificationKeys(props)
    IN  /\ Len(sent) < MaxSent
        /\ props' = deleteProperties(props, cleared)
        /\ sent' = sendDebugMessage(st0, fault).sent
        /\ lastCall' = [fn |-> "clearAllNotificationRecords", before |-> props,
                        clearedCount |-> Cardinality(cleared)]
        /\ UNCHANGED <<now, calendar, debugMode, lastTick, lastCleanup, lastDaily, raceVars,
                       triggers, lastSetup, lastHealth>>

\* The manual test entry points.  Every run from the editor is an execution of its own
\* that evaluates config.js again, so the value a function leaves in CONFIG.DEBUG_MODE
\* is logged (debugAfter) and not carried over to the next invocation.  Scoping is
\* that of the V8 runtime, which the template literals, spread syntax and optional
\* chaining of the scripts require: a const declared in a try block is not in scope
\* in its catch and finally blocks.

SearchDays == 7

\* what a test entry point did: how it ended, the value of CONFIG.DEBUG_MODE when it
\* was called and when it ended, whether an exception left it, the records it wrote
TestLog(fn, exit, debugAfter, threw, wrote, sentAfter) ==
    [fn |-> fn, exit |-> exit, at |-> now, debugBefore |-> debugMode,
     debugAfter |-> debugAfter, threw |-> threw, wrote |-> wrote, sentAfter |-> sentAfter]

\* the keys of the occurrences that a loop over processMeeting announced and recorded
NotifiedKeys(outcomes) ==
    {outcomes[i].key : i \in {i \in DOMAIN outcomes : outcomes[i].outcome = "notified"}}

\* checkCalendarAndNotifyDebug: sets CONFIG.DEBUG_MODE, then does what the tick does
\* without the cleanup.  originalDebugMode is a const of the try block, so the finally
\* block, on every path, ends in a ReferenceError before it assigns anything.
checkCalendarAndNotifyDebug(calendarFound, fault, storeFault) ==
    LET st0 == [props |-> props, sent |-> sent, fetches |-> 0]
        meetings == getUpcomingMeetings(calendar, now)
        r == ProcessMeetings(st0, meetings, 1, now, TRUE, fault, storeFault, <<>>)
        exit == IF ~calendarFound \/ r.threw THEN "exception"
                ELSE IF meetings = <<>> THEN "no-meetings" ELSE "completed"
        st1 == IF ~calendarFound THEN sendErrorNotification(st0, NoKey, fault).st
               ELSE IF meetings = <<>> THEN sendDebugMessage(st0, fault)
               ELSE IF r.threw THEN sendErrorNotification(r.st, NoKey, fault).st
               ELSE r.st
    IN  /\ Len(sent) < MaxSent
        /\ props' = st1.props
        /\ sent' = st1.sent
        /\ lastCall' = TestLog("checkCalendarAndNotifyDebug", exit, TRUE, TRUE,
                               IF calendarFound THEN NotifiedKeys(r.outcomes) ELSE {},
                               Len(st1.sent))
        /\ UNCHANGED <<now, calendar, debugMode, lastTick, lastCleanup, lastDaily, raceVars,
                       triggers, lastSetup, lastHealth>>

\* testNextMeetingNotification: sets CONFIG.DEBUG_MODE and runs processMeeting on the
\* first matching event of the next 7 days.  Only the last statement of the try block
\* restores the flag: the two early returns leave it set, and in the catch block
\* typeof originalDebugMode is 'undefined'.
testNextMeetingNotification(calendarFound, eventsThrow, fault, storeFault) ==
    LET st0 == [props |-> props, sent |-> sent, fetches |-> 0]
        events == getEvents(calendar, now, now + SearchDays * 24 * HourMs)
        hits == SelectSeq(events, LAMBDA e : findMatchingMeetingConfig(e.title) # NoConfig)
        nextMeeting == [id |-> hits[1].id, title |-> hits[1].title,
                        startTime |-> hits[1].startTime,
                        config |-> findMatchingMeetingConfig(hits[1].title)]
        r == processMeeting(st0, nextMeeting, now, TRUE, fault, storeFault)
        exit == IF ~calendarFound THEN "calendar-not-found"
                ELSE IF eventsThrow THEN "exception"
                ELSE IF hits = <<>> THEN "no-meeting" ELSE "completed"
        st1 == IF exit = "completed" THEN r.st ELSE st0
    IN  /\ Len(sent) < MaxSent
        /\ props' = st1.props
        /\ sent' = st1.sent
        /\ lastCall' = TestLog("testNextMeetingNotification", exit,
                               IF exit = "completed" THEN debugMode ELSE TRUE, FALSE,
                               IF exit = "completed" /\ r.outcome = "notified"
                               THEN {getMeetingNotificationKey(nextMeeting)} ELSE {},
                               Len(st1.sent))
        /\ UNCHANGED <<now, calendar, debugMode, lastTick, lastCleanup, lastDaily, raceVars,
                       triggers, lastSetup, lastHealth>>

-----------------------------------------------------------------------------
(* The meeting file organizer (src/google-apps-script-solution.js).  One   *)
(* invocation is threaded through a record ms = [drive, uploads, posted,   *)
(* calls]; calls counts the invocation's calls of every external           *)
(* operation.  fault = [op, at]: the at-th call of operation op fails.     *)

SOURCE_FOLDER_ID == "folder-source"

NotesMarker == <<"Notes", "by", "Gemini">>
RecordingMarker == <<"Recording">>
ChatMarker == <<"Chat">>

\* title.includes(words)
Includes(title, words) ==
    \E i \in 0..(Len(title) - Len(words)) : SubSeq(title, i + 1, i + Len(words)) = words

NoMatch == [prefix |-> <<>>, config |-> NoConfig, isChat |-> FALSE]

\* the loop of findMatchingConfig over a table
findMatchingConfigIn(table, title) ==
    LET hits == {i \in 1..Len(table) : Includes(title, table[i].prefix)}
    IN  IF hits = {} THEN NoMatch
        ELSE [prefix |-> table[FirstHit(hits)].prefix, config |-> table[FirstHit(hits)],
              isChat |-> Includes(title, ChatMarker)]

\* findMatchingConfig: first entry, in table order, whose prefix occurs in the title
findMatchingConfig(title) == findMatchingConfigIn(MEETING_CONFIGS, title)

Ops == {"getFolder", "youtube", "markerRead", "blob", "upload", "markerWrite",
        "move", "addFile", "reread", "post"}

NoMoverFault == [op |-> "none", at |-> 0]

MoverFaults == {NoMoverFault} \cup {[op |-> o, at |-> n] : o \in Ops, n \in 1..MaxFaultAt}

\* the call of op that the invocation is about to make is the one that fails
Hit(ms, op, fault) == fault.op = op /\ fault.at = ms.calls[op] + 1

Called(ms, op) == [ms EXCEPT !.calls[op] = @ + 1]

\* the ids of a set in ascending order (the order of sourceFolder.getFiles())
SeqOf(S) == [i \in 1..Cardinality(S) |-> CHOOSE x \in S : Cardinality({y \in S : y < x}) = i - 1]

InSource(d) == {id \in DOMAIN d : SOURCE_FOLDER_ID \in d[id].parents}

\* findMeetingFiles: the files of the source folder that match a configured prefix
findMeetingFiles(d) ==
    LET ids == SeqOf({id \in InSource(d) : findMatchingConfig(d[id].title) # NoMatch})
    IN  [i \in 1..Len(ids) |-> [id |-> ids[i], title |-> d[ids[i]].title]]

\* variant: one of the two roles is enough
CompletePair_Either(groupFiles) ==
    \/ \E i \in DOMAIN groupFiles : Includes(groupFiles[i].title, NotesMarker)
    \/ \E i \in DOMAIN groupFiles : Includes(groupFiles[i].title, RecordingMarker)

\* hasNotes && hasRecording
CompletePair(groupFiles) ==
    /\ \E i \in DOMAIN groupFiles : Includes(groupFiles[i].title, NotesMarker)
    /\ \E i \in DOMAIN groupFiles : Includes(groupFiles[i].title, RecordingMarker)

\* the groups of grouped (chat = FALSE) or chatFiles (chat = TRUE), in insertion order:
\* by the first file of each prefix
GroupsOf(files, chat) ==
    LET mine(i) == findMatchingConfig(files[i].title).isChat = chat
        firsts == {i \in DOMAIN files :
                      /\ mine(i)
                      /\ \A j \in 1..(i - 1) :
                            mine(j) => findMatchingConfig(files[j].title).prefix
                                           # findMatchingConfig(files[i].title).prefix}
        order == SeqOf(firsts)
    IN  [n \in 1..Len(order) |->
            LET m == findMatchingConfig(files[order[n]].title)
            IN  [key |-> [prefix |-> m.prefix, chat |-> chat],
                 config |-> m.config,
                 files |-> SelectSeq(files, LAMBDA f :
                              /\ findMatchingConfig(f.title).prefix = m.prefix
                              /\ findMatchingConfig(f.title).isChat = chat),
                 isChat |-> chat]]

\* variant: a chat group, too, needs a notes and a recording file of its own
groupFilesByMeetingConfig_ChatNeedsPair(files) ==
    SelectSeq(GroupsOf(files, FALSE) \o GroupsOf(files, TRUE),
              LAMBDA g : CompletePair(g.files))

\* groupFilesByMeetingConfig: the complete regular groups, then every chat group
groupFilesByMeetingConfig(files) ==
    SelectSeq(GroupsOf(files, FALSE), LAMBDA g : CompletePair(g.files))
        \o GroupsOf(files, TRUE)

NoGroupKey == [prefix |-> <<>>, chat |-> FALSE]

Titles(files) == [i \in 1..Len(files) |-> files[i].title]

\* UrlFetchApp.fetch(webhook, {method: 'POST', payload}) of the organizer, logged with
\* its outcome; every caller catches a fetch that throws
Post(ms, webhook, kind, about, names, fault) ==
    Called([ms EXCEPT !.posted =
                Append(@, [webhook |-> webhook, kind |-> kind, about |-> about,
                           files |-> names,
                           outcome |-> IF Hit(ms, "post", fault) THEN "throw" ELSE "ok"])],
           "post")

\* sendErrorNotification of the organizer: posts to DEFAULT_WEBHOOK, swallows a failure
organizerErrorNotification(ms, about, fault) ==
    Post(ms, DEFAULT_WEBHOOK, "error", about, <<>>, fault)

\* sendConfiguredSlackNotification: one message with a bullet per file
sendConfiguredSlackNotification(ms, configKey, config, files, fault) ==
    IF config.slackWebhook = "" THEN ms
    ELSE Post(ms, config.slackWebhook, "files", configKey, Titles(files), fault)

\* sendDebugSlackNotification: the same message, to DEFAULT_WEBHOOK
sendDebugSlackNotification(ms, configKey, config, files, fault) ==
    Post(ms, DEFAULT_WEBHOOK, "debug", configKey, Titles(files), fault)

\* hasYouTubeConfig: false when the YouTube service call throws
hasYouTubeConfig(ms, fault) ==
    [ms |-> Called(ms, "youtube"), result |-> ~Hit(ms, "youtube", fault)]

\* isAlreadyUploadedToYoutube: a failing read of the file properties gives false
isAlreadyUploadedToYoutube(ms, fileId, fault) ==
    [ms |-> Called(ms, "markerRead"),
     result |-> ~Hit(ms, "markerRead", fault) /\ ms.drive[fileId].uploaded]

\* markAsUploadedToYoutube: a failing write is reported and swallowed
markAsUploadedToYoutube(ms, fileId, about, fault) ==
    IF Hit(ms, "markerWrite", fault)
    THEN organizerErrorNotification(Called(ms, "markerWrite"), about, fault)
    ELSE [Called(ms, "markerWrite") EXCEPT !.drive[fileId].uploaded = TRUE]

\* uploadVideoToYoutube: YouTube.Videos.insert; a throw or a response without id
\* gives no video id
uploadVideoToYoutube(ms, fileId, fault) ==
    IF Hit(ms, "upload", fault)
    THEN [ms |-> Called(ms, "upload"), videoId |-> FALSE]
    ELSE [ms |-> [Called(ms, "upload") EXCEPT !.uploads = Append(@, fileId)],
          videoId |-> TRUE]

\* the for-loop of uploadVideosToYoutube, from file i on.  addVideoToPlaylist changes
\* nothing here and catches its own failure.
RECURSIVE UploadFrom(_, _, _, _, _, _, _)
UploadFrom(ms, recordingFiles, i, about, fault, ok, failed) ==
    IF i > Len(recordingFiles)
    THEN [ms |-> ms, allUploadsSucceeded |-> ok, failed |-> failed]
    ELSE LET id == recordingFiles[i].id
             seen == isAlreadyUploadedToYoutube(ms, id, fault)
             blobThrew == Hit(seen.ms, "blob", fault)
             blob == Called(seen.ms, "blob")
             up == uploadVideoToYoutube(blob, id, fault)
         IN  IF seen.result
             THEN UploadFrom(seen.ms, recordingFiles, i + 1, about, fault, ok, failed)
             ELSE IF blobThrew
             THEN UploadFrom(organizerErrorNotification(blob, about, fault), recordingFiles,
                             i + 1, about, fault, FALSE, failed \cup {id})
             ELSE IF ~up.videoId
             THEN UploadFrom(organizerErrorNotification(up.ms, about, fault), recordingFiles,
                             i + 1, about, fault, FALSE, failed \cup {id})
             ELSE UploadFrom(markAsUploadedToYoutube(up.ms, id, about, fault),
                             recordingFiles, i + 1, about, fault, ok, failed)

\* variant: the result of the uploads is reported as a success whatever happened
uploadVideosToYoutube_AlwaysTrue(ms, recordingFiles, about, fault) ==
    [UploadFrom(ms, recordingFiles, 1, about, fault, TRUE, {})
        EXCEPT !.allUploadsSucceeded = TRUE]

\* uploadVideosToYoutube: true iff no upload of this call failed
uploadVideosToYoutube(ms, recordingFiles, about, fault) ==
    UploadFrom(ms, recordingFiles, 1, about, fault, TRUE, {})

\* variant: the file is added to the folder and keeps its current parents
MoveFile_KeepParents(file, folder) == [file EXCEPT !.parents = @ \cup {folder}]

\* parent.removeFile(file) for every parent, then folder.addFile(file)
MoveFile(file, folder) == [file EXCEPT !.parents = {folder}]

\* moveFilesToFolder, from file i on: a failure on one file is logged and the next
\* file is tried; "move": getFileById or removeFile throws before anything changed,
\* "addFile": addFile throws after the file left its parents
RECURSIVE MoveFrom(_, _, _, _, _)
MoveFrom(ms, files, i, folder, fault) ==
    IF i > Len(files) THEN ms
    ELSE LET id == files[i].id
             m1 == Called(ms, "move")
             m2 == Called(m1, "addFile")
             next == IF Hit(ms, "move", fault) THEN m1
                     ELSE IF Hit(m1, "addFile", fault)
                     THEN [m2 EXCEPT !.drive[id].parents = {}]
                     ELSE [m2 EXCEPT !.drive[id] = MoveFile(@, folder)]
         IN  MoveFrom(next, files, i + 1, folder, fault)

moveFilesToFolder(ms, files, folder, fault) == MoveFrom(ms, files, 1, folder, fault)

\* groupFiles.map(fileData => DriveApp.getFileById(fileData.id) ...), from file i on:
\* nothing catches a getFileById that throws
RECURSIVE RereadFrom(_, _, _, _)
RereadFrom(ms, files, i, fault) ==
    IF i > Len(files) THEN [ms |-> ms, threw |-> FALSE]
    ELSE IF Hit(ms, "reread", fault) THEN [ms |-> Called(ms, "reread"), threw |-> TRUE]
    ELSE RereadFrom(Called(ms, "reread"), files, i + 1, fault)

\* the body of the for-loop of organizeMeetingFiles for one group; threw: an exception
\* leaves the loop
ProcessGroup(ms, g, dbg, fault) ==
    LET folderThrew == Hit(ms, "getFolder", fault)
        m0 == Called(ms, "getFolder")
        recordingFiles == SelectSeq(g.files, LAMBDA f : Includes(f.title, RecordingMarker))
        yt == hasYouTubeConfig(m0, fault)
        m1 == IF g.config.uploadToYoutube THEN yt.ms ELSE m0
        uploading == /\ g.config.uploadToYoutube /\ yt.result
                     /\ recordingFiles # <<>> /\ ~dbg
        up == IF uploading THEN uploadVideosToYoutube(m1, recordingFiles, g.key, fault)
              ELSE [ms |-> m1, allUploadsSucceeded |-> TRUE, failed |-> {}]
        moved == IF dbg THEN up.ms
                 ELSE moveFilesToFolder(up.ms, g.files, g.config.targetFolderId, fault)
        re == IF dbg THEN [ms |-> moved, threw |-> FALSE]
              ELSE RereadFrom(moved, g.files, 1, fault)
        notified == IF g.isChat THEN re.ms
                    ELSE IF dbg
                    THEN sendDebugSlackNotification(re.ms, g.key, g.config, g.files, fault)
                    ELSE sendConfiguredSlackNotification(re.ms, g.key, g.config, g.files, fault)
    IN  IF folderThrew
        THEN [ms |-> m0, outcome |-> "aborted", threw |-> TRUE, failed |-> {}]
        ELSE IF ~up.allUploadsSucceeded
        THEN [ms |-> up.ms, outcome |-> "upload-failed", threw |-> FALSE, failed |-> up.failed]
        ELSE IF re.threw
        THEN [ms |-> re.ms, outcome |-> "aborted", threw |-> TRUE, failed |-> up.failed]
        ELSE [ms |-> notified, outcome |-> "done", threw |-> FALSE, failed |-> up.failed]

\* the for-loop of organizeMeetingFiles over the groups, from group n on
RECURSIVE ProcessGroups(_, _, _, _, _, _, _)
ProcessGroups(ms, groups, n, dbg, fault, outcomes, failed) ==
    IF n > Len(groups)
    THEN [ms |-> ms, outcomes |-> outcomes, failed |-> failed, threw |-> FALSE]
    ELSE LET r == ProcessGroup(ms, groups[n], dbg, fault)
             done == Append(outcomes, [key |-> groups[n].key, outcome |-> r.outcome])
         IN  IF r.threw
             THEN [ms |-> r.ms, outcomes |-> done, failed |-> failed \cup r.failed,
                   threw |-> TRUE]
             ELSE ProcessGroups(r.ms, groups, n + 1, dbg, fault, done, failed \cup r.failed)

MaxPosted == 2     \* the organizer does not run once this many POSTs have been logged
MaxUploads == 2    \* nor once this many uploads have been accepted
MaxFiles == 3      \* no file arrives once the drive holds this many files

EmptyDrive == [id \in {} |-> [title |-> <<>>, parents |-> {}, uploaded |-> FALSE]]

NoRun ==
    [ran |-> FALSE, debug |-> FALSE, fault |-> NoMoverFault, before |-> EmptyDrive,
     after |-> EmptyDrive, groups |-> <<>>, deferred |-> {}, prevDeferred |-> {},
     outcomes |-> <<>>, failedUploads |-> {}, threw |-> FALSE, postedBefore |-> 0]

\* the body of organizeMeetingFiles with CONFIG.DEBUG_MODE = dbg.  An exception that
\* leaves the loop is reported by the catch block and thrown on.
OrganizerRun(dbg, fault) ==
    /\ Len(posted) < MaxPosted
    /\ Len(uploads) < MaxUploads
    /\ \E files \in {findMeetingFiles(drive)} :
       \E groups \in {IF files = <<>> THEN <<>> ELSE groupFilesByMeetingConfig(files)} :
       \E r \in {ProcessGroups([drive |-> drive, uploads |-> uploads, posted |-> posted,
                                calls |-> [o \in Ops |-> 0]],
                               groups, 1, dbg, fault, <<>>, {})} :
       \E ms1 \in {IF r.threw THEN organizerErrorNotification(r.ms, NoGroupKey, fault)
                    ELSE r.ms} :
       \E regular \in {GroupsOf(files, FALSE)} :
          /\ drive' = ms1.drive
          /\ uploads' = ms1.uploads
          /\ posted' = ms1.posted
          /\ lastRun' = [ran |-> TRUE, debug |-> dbg,
                         fault |-> IF fault.op # "none" /\ ms1.calls[fault.op] >= fault.at
                                   THEN fault ELSE NoMoverFault,
                         before |-> drive, after |-> ms1.drive,
                         groups |-> [n \in 1..Len(groups) |->
                                        [key |-> groups[n].key,
                                         ids |-> {groups[n].files[i].id :
                                                     i \in DOMAIN groups[n].files}]],
                         deferred |-> {regular[n].key.prefix : n \in
                                          {n \in DOMAIN regular :
                                              ~CompletePair(regular[n].files)}},
                         prevDeferred |-> lastRun.deferred,
                         outcomes |-> r.outcomes, failedUploads |-> r.failed,
                         threw |-> r.threw, postedBefore |-> Len(posted)]
    /\ UNCHANGED <<now, props, calendar, debugMode, sent, lastTick, lastCleanup,
                   lastDaily, running, overlapped, triggers, lastSetup, lastHealth>>

\* organizeMeetingFiles: one invocation by the 15-minute trigger
organizeMeetingFiles(fault) == OrganizerRun(debugMode, fault) /\ UNCHANGED lastCall

\* testDebugMode, run by hand: originalDebugMode is declared before the try block, and
\* the finally block puts it back whether organizeMeetingFiles returned or threw
testDebugMode(fault) ==
    /\ OrganizerRun(TRUE, fault)
    /\ lastCall' = TestLog("testDebugMode", "completed", debugMode, FALSE, {}, Len(sent))

\* the files Google Meet may drop into the source folder
FileNames ==
    << CommunityPrefix \o <<"2025-01-08", "Recording">>,
       CommunityPrefix \o <<"2025-01-08", "Recording", "(part", "2)">>,
       CommunityPrefix \o <<"2025-01-08", "Notes", "by", "Gemini">>,
       <<"[PUBLIC]", "llm-d", "sig-autoscaling", "2025-01-07", "Recording">>,
       <<"[PUBLIC]", "llm-d", "sig-autoscaling", "2025-01-07", "Notes", "by", "Gemini">>,
       <<"[PUBLIC]", "llm-d", "sig-autoscaling", "2025-01-07", "Chat">>,
       <<"Budget", "2025">> >>

NewFile(id) == [title |-> FileNames[id], parents |-> {SOURCE_FOLDER_ID}, uploaded |-> FALSE]

DriveOf(ids) == [id \in ids |-> NewFile(id)]

\* a file appears in the source folder
FileArrives(id) ==
    /\ id \notin DOMAIN drive
    /\ Cardinality(DOMAIN drive) < MaxFiles
    /\ drive' = [i \in DOMAIN drive \cup {id} |-> IF i = id THEN NewFile(id) ELSE drive[i]]
    /\ UNCHANGED <<now, props, calendar, debugMode, sent, lastTick, lastCleanup, lastDaily,
                   running, overlapped, uploads, posted, lastRun, toolVars>>

-----------------------------------------------------------------------------
(* Setup and monitoring functions, run by hand from the script editor      *)

Handlers == {"checkCalendarAndNotify", "dailyCleanupNotificationRecords", "organizeMeetingFiles"}

\* a setup fault: the at-th ScriptApp.deleteTrigger of the call throws ("delete"), or
\* the create() of the new trigger throws ("create")
NoSetupFault == [op |-> "none", at |-> 0]

SetupFaults ==
    {NoSetupFault, [op |-> "create", at |-> 1]}
        \cup {[op |-> "delete", at |-> n] : n \in 1..MaxFaultAt}

\* variant: the loop deletes every trigger of the project
deleteTriggers_All(ts, handler, fault) == [triggers |-> <<>>, threw |-> FALSE]

\* the loop over ScriptApp.getProjectTriggers(): every trigger whose handler function
\* is the given one is deleted, in order, until a deleteTrigger throws
deleteTriggers(ts, handler, fault) ==
    LET match == {i \in DOMAIN ts : ts[i] = handler}
        threw == fault.op = "delete" /\ fault.at \in 1..Cardinality(match)
        gone == IF threw
                THEN {i \in match : Cardinality({j \in match : j < i}) + 1 < fault.at}
                ELSE match
        keep == SeqOf(DOMAIN ts \ gone)
    IN  [triggers |-> [n \in 1..Len(keep) |-> ts[keep[n]]], threw |-> threw]

\* delete the handler's triggers, then ScriptApp.newTrigger(handler)...create()
Register(ts, handler, fault) ==
    LET d == deleteTriggers(ts, handler, fault)
        createThrew == ~d.threw /\ fault.op = "create"
    IN  [triggers |-> IF d.threw \/ createThrew THEN d.triggers
                      ELSE Append(d.triggers, handler),
         threw |-> d.threw \/ createThrew]

MaxSetupSent == 2   \* a setup function that reports does not run once this many POSTs are logged

NoSetup ==
    [ran |-> FALSE, handler |-> "", ok |-> FALSE, before |-> <<>>, registered |-> {},
     clean |-> TRUE]

\* what a setup call leaves in the log: registered are the handlers set up by a call
\* that completed without error, clean says that no setup call so far has failed
SetupLog(handler, r) ==
    [ran |-> TRUE, handler |-> handler, ok |-> ~r.threw, before |-> triggers,
     registered |-> IF r.threw THEN lastSetup.registered \ {handler}
                    ELSE lastSetup.registered \cup {handler},
     clean |-> lastSetup.clean /\ ~r.threw]

\* setupCalendarTrigger: reports success through sendDebugMessage, a failure through
\* sendErrorNotification
setupCalendarTrigger(fault, fetchFault) ==
    /\ Len(sent) < MaxSetupSent
    /\ \E r \in {Register(triggers, "checkCalendarAndNotify", fault)} :
       \E st0 \in {[props |-> props, sent |-> sent, fetches |-> 0]} :
          /\ triggers' = r.triggers
          /\ sent' = IF r.threw THEN sendErrorNotification(st0, NoKey, fetchFault).st.sent
                     ELSE sendDebugMessage(st0, fetchFault).sent
          /\ lastSetup' = SetupLog("checkCalendarAndNotify", r)
    /\ UNCHANGED <<now, props, calendar, debugMode, lastTick, lastCleanup, lastDaily,
                   raceVars, lastHealth, lastCall>>

\* setupCleanupTriggers: reports only a failure
setupCleanupTriggers(fault, fetchFault) ==
    /\ Len(sent) < MaxSetupSent
    /\ \E r \in {Register(triggers, "dailyCleanupNotificationRecords", fault)} :
       \E st0 \in {[props |-> props, sent |-> sent, fetches |-> 0]} :
          /\ triggers' = r.triggers
          /\ sent' = IF r.threw THEN sendErrorNotification(st0, NoKey, fetchFault).st.sent
                     ELSE sent
          /\ lastSetup' = SetupLog("dailyCleanupNotificationRecords", r)
    /\ UNCHANGED <<now, props, calendar, debugMode, lastTick, lastCleanup, lastDaily,
                   raceVars, lastHealth, lastCall>>

\* setupAutomaticTrigger: no try/catch, a failure reaches the caller
setupAutomaticTrigger(fault) ==
    /\ \E r \in {Register(triggers, "organizeMeetingFiles", fault)} :
          /\ triggers' = r.triggers
          /\ lastSetup' = SetupLog("organizeMeetingFiles", r)
    /\ UNCHANGED <<now, props, calendar, debugMode, sent, lastTick, lastCleanup,
                   lastDaily, raceVars, lastHealth, lastCall>>

WarnPercent == 80       \* utilizationPercent >= 80
CriticalPercent == 90   \* utilizationPercent >= 90

\* Math.round((totalProperties / 50) * 100)
utilizationPercent(totalProperties) ==
    (2 * 100 * totalProperties + PropertyQuota) \div (2 * PropertyQuota)

\* variant: the message is sent from the CRITICAL level on
StorageWarningDue_Critical(percent) == percent >= CriticalPercent

\* the condition of the Slack message at the end of monitorStorageHealth
StorageWarningDue(percent) == percent >= WarnPercent

NoCall == [fn |-> "none"]

NoHealth ==
    [ran |-> FALSE, threw |-> FALSE, before |-> EmptyProps, notificationRecords |-> 0,
     otherProperties |-> 0, percent |-> 0, sentBefore |-> 0]

\* monitorStorageHealth: counts the properties, logs a report and sends one message
\* through sendDebugMessage when the store is getting full; storeThrows: getProperties
\* throws, the catch block logs it
monitorStorageHealth(fault, storeThrows) ==
    /\ Len(sent) < MaxSent
    /\ \E notificationRecords \in {Cardinality(NotificationKeys(props))} :
       \E otherProperties \in {Cardinality(DOMAIN props \ NotificationKeys(props))} :
       \E percent \in {utilizationPercent(notificationRecords + otherProperties)} :
          /\ sent' = IF ~storeThrows /\ StorageWarningDue(percent)
                     THEN sendDebugMessage([props |-> props, sent |-> sent, fetches |-> 0],
                                           fault).sent
                     ELSE sent
          /\ lastHealth' = IF storeThrows
                           THEN [NoHealth EXCEPT !.ran = TRUE, !.threw = TRUE,
                                                 !.before = props, !.sentBefore = Len(sent)]
                           ELSE [ran |-> TRUE, threw |-> FALSE, before |-> props,
                                 notificationRecords |-> notificationRecords,
                                 otherProperties |-> otherProperties,
                                 percent |-> percent, sentBefore |-> Len(sent)]
    /\ UNCHANGED <<now, props, calendar, debugMode, lastTick, lastCleanup, lastDaily,
                   raceVars, triggers, lastSetup, lastCall>>

-----------------------------------------------------------------------------
(* Calendars and stores the runs start from                                *)

MeetingTime == 62 * HourMs            \* 14:00:00.000 on the third day
MeetingLength == 30 * MinuteMs

TitleAutoscaling == <<"[PUBLIC]", "llm-d", "sig-autoscaling", "weekly">>
TitleBenchmarking == <<"[PUBLIC]", "llm-d", "sig-benchmarking">>
TitleCommunity == <<"[PUBLIC]", "llm-d", "Community", "Meeting">>
TitleLunch == <<"Team", "lunch">>

Event(id, title, startTime) ==
    [id |-> id, title |-> title, startTime |-> startTime, endTime |-> startTime + MeetingLength]

EvAutoscaling == Event(1, TitleAutoscaling, MeetingTime)
EvCommunity == Event(2, TitleCommunity, MeetingTime)
EvLunch == Event(3, TitleLunch, MeetingTime)
EvBenchmarking == Event(4, TitleBenchmarking, MeetingTime + MinuteMs)

Calendars ==
    { <<EvAutoscaling>>,
      <<EvAutoscaling, EvCommunity>>,
      <<EvCommunity, EvAutoscaling>>,
      <<EvAutoscaling, EvLunch, EvBenchmarking>> }

KeyOf(e) == getMeetingNotificationKey(e)

\* a store from a set of [key, value] entries with distinct keys
PropsOf(entries) ==
    [k \in {e.key : e \in entries} |-> (CHOOSE e \in entries : e.key = k).value]

\* the record of the occurrence of event id that started at startTime, written at
\* notifiedAt by recordNotificationSent (kind "json"), or a damaged value under its key
RecordEntry(id, startTime, notifiedAt, kind) ==
    [key |-> [pfx |-> "notified_", id |-> id, iso |-> toISOString(startTime)],
     value |-> IF kind = "json"
               THEN JSONstringify([meetingTitle |-> TitleAutoscaling,
                                   meetingStart |-> toISOString(startTime),
                                   notifiedAt |-> toISOString(notifiedAt)])
               ELSE StoredText(kind)]

\* a property of the same store that is no notification record
OtherEntry(i) ==
    [key |-> [pfx |-> "setting_", id |-> i, iso |-> <<0, 0>>], value |-> StoredText("garbage")]

SmallStores ==
    { EmptyProps,
      PropsOf({RecordEntry(1, MeetingTime - 25 * HourMs, MeetingTime - 25 * HourMs, "json"),
               OtherEntry(1)}),
      PropsOf({RecordEntry(7, MeetingTime - 5 * HourMs, MeetingTime - 5 * HourMs, "json"),
               RecordEntry(8, MeetingTime - 30 * HourMs, MeetingTime - 30 * HourMs, "garbage")}),
      \* a damaged value under the key of the occurrence that is about to start
      PropsOf({RecordEntry(1, MeetingTime, MeetingTime, "garbage")}) }

StoreSizes == {0, 29, 30, 44, 45, 46, 48, 50}
OldCounts == {2, 10}
OldAges == {3 * HourMs, 4 * HourMs, 5 * HourMs, 9 * HourMs, 25 * HourMs}
DamagedKinds == {"garbage", "empty", "null", "zero", "nodate"}

\* n records, written when their meetings started: the first k at age + 0 s, + 1 s, ...
\* before MeetingTime, the others 1, 2, ... minutes before it; the n-th record is of
\* kind special and, with specialOld, of a meeting of 30 hours ago; plus nOther other
\* properties
BigStore(n, k, age, special, specialOld, nOther) ==
    LET at(i) == IF i = n /\ specialOld THEN MeetingTime - 30 * HourMs
                 ELSE IF i <= k THEN MeetingTime - age - (i - 1) * SecondMs
                 ELSE MeetingTime - i * MinuteMs
    IN  PropsOf({RecordEntry(100 + i, at(i), at(i), IF i = n THEN special ELSE "json")
                    : i \in 1..n}
                \cup {OtherEntry(i) : i \in 1..nOther})

BigStores ==
    {BigStore(n, 0, 0, "json", FALSE, 0) : n \in StoreSizes}
    \cup {BigStore(n, k, age, "json", FALSE, 0) :
            n \in StoreSizes \ {0}, k \in OldCounts, age \in OldAges}
    \cup {BigStore(n, 2, 5 * HourMs, special, specialOld, 0) :
            n \in {29, 30, 50}, special \in DamagedKinds, specialOld \in BOOLEAN}
    \cup {BigStore(n, k, 5 * HourMs, "json", FALSE, 2) : n \in {46, 48}, k \in {0, 2}}

-----------------------------------------------------------------------------
(* Specifications                                                          *)

AdvanceSteps == {MinuteMs}

\* time passes between two invocations
Advance(d) ==
    /\ now + d <= MeetingTime + MaxMinutes * MinuteMs
    /\ now' = now + d
    /\ UNCHANGED <<props, calendar, debugMode, sent, lastTick, lastCleanup, lastDaily,
                   raceVars, toolVars>>

\* the small stores hold no record with an Invalid Date, so nanFirst is immaterial here
Tick == \E fault \in Faults, storeFault \in BOOLEAN :
            checkCalendarAndNotify(fault, storeFault, FALSE)

Clock == \E d \in AdvanceSteps : Advance(d)

\* the invocations that can be in progress at once: the trigger's and a manual run
Invocations == {1, 2}

Idle == [pc |-> "idle", meetings |-> <<>>, n |-> 0]

InitLogs ==
    /\ sent = <<>>
    /\ lastTick = NoTick
    /\ lastCleanup = NoCleanup
    /\ lastDaily = NoDaily
    /\ running = [i \in Invocations |-> Idle]
    /\ overlapped = FALSE
    /\ drive = EmptyDrive
    /\ uploads = <<>>
    /\ posted = <<>>
    /\ lastRun = NoRun
    /\ triggers = <<>>
    /\ lastSetup = NoSetup
    /\ lastHealth = NoHealth
    /\ lastCall = NoCall

\* a few minutes around one meeting start, small stores, every fault
Init ==
    /\ now \in {MeetingTime - 2 * MinuteMs, MeetingTime - 90 * SecondMs}
    /\ props \in SmallStores
    /\ calendar \in Calendars
    /\ debugMode \in BOOLEAN
    /\ InitLogs

Next == Clock \/ Tick

Spec == Init /\ [][Next]_vars

\* stores near their quota; the only failure is the store's own quota
InitStore ==
    /\ now = MeetingTime - MinuteMs
    /\ props \in BigStores
    /\ calendar = <<EvAutoscaling, EvBenchmarking>>
    /\ debugMode = FALSE
    /\ InitLogs

StoreTick == \E nanFirst \in BOOLEAN : checkCalendarAndNotify(NoFault, FALSE, nanFirst)

StoreDaily == DailyCleanup(NoFault)

StoreClock == Advance(MinuteMs)

NextStore == StoreClock \/ StoreTick \/ StoreDaily

SpecStore == InitStore /\ [][NextStore]_vars

HalfSecondMs == SecondMs \div 2

WindowSteps == 184   \* instants tried: MeetingTime +/- WindowSteps half seconds

\* one tick at an instant around the start of one meeting, half a second apart
InitWindow ==
    /\ now \in {MeetingTime + i * HalfSecondMs : i \in (-WindowSteps)..WindowSteps}
    /\ props = EmptyProps
    /\ calendar \in {<<EvAutoscaling>>, <<EvLunch, EvAutoscaling>>}
    /\ debugMode = FALSE
    /\ InitLogs

WindowTick == checkCalendarAndNotify(NoFault, FALSE, FALSE)

NextWindow == WindowTick

SpecWindow == InitWindow /\ [][NextWindow]_vars

\* Invocations of checkCalendarAndNotify that may overlap (the trigger's tick and a
\* manual run): each one takes the steps of the handler one store or webhook access
\* at a time.  No LockService guards the handler.

\* invocation i goes on to its next meeting, or ends
NextMeeting(r) ==
    IF r.n < Len(r.meetings) THEN [r EXCEPT !.pc = "check", !.n = r.n + 1] ELSE Idle

\* invocation i starts: cleanup when due, then getUpcomingMeetings
RaceStart(i) ==
    LET st0 == [props |-> props, sent |-> sent, fetches |-> 0]
        cleaned == CleanupDue(now)
        c == cleanupOldNotificationRecords(st0, now, NoFault, FALSE)
        st1 == IF cleaned THEN c.st ELSE st0
        meetings == getUpcomingMeetings(calendar, now)
    IN  /\ running[i].pc = "idle"
        /\ Len(sent) < MaxSent
        /\ props' = st1.props
        /\ sent' = st1.sent
        /\ lastCleanup' = IF cleaned THEN c.log ELSE lastCleanup
        /\ running' = [running EXCEPT ![i] =
                          IF meetings = <<>> THEN Idle
                          ELSE [pc |-> "check", meetings |-> meetings, n |-> 1]]
        /\ overlapped' = (overlapped \/ \E j \in Invocations \ {i} : running[j].pc # "idle")
        /\ UNCHANGED <<now, calendar, debugMode, lastTick, lastDaily, moverVars, toolVars>>

\* processMeeting, first step: hasAlreadyNotified reads the store
RaceCheck(i) ==
    LET r == running[i]
        meeting == r.meetings[r.n]
        st0 == [props |-> props, sent |-> sent, fetches |-> 0]
        seen == hasAlreadyNotified(props, meeting)
    IN  /\ r.pc = "check"
        /\ sent' = IF seen.threw
                   THEN sendErrorNotification(st0, getMeetingNotificationKey(meeting),
                                              NoFault).st.sent
                   ELSE sent
        /\ running' = [running EXCEPT ![i] =
                          IF seen.threw \/ seen.result THEN NextMeeting(r)
                          ELSE [r EXCEPT !.pc = "send"]]
        /\ UNCHANGED <<now, props, calendar, debugMode, lastTick, lastCleanup, lastDaily,
                       overlapped, moverVars, toolVars>>

\* processMeeting, second step: the sends to every channel
RaceSend(i) ==
    LET r == running[i]
        meeting == r.meetings[r.n]
        st0 == [props |-> props, sent |-> sent, fetches |-> 0]
        sends == SendToChannels(st0, getChannelsToNotify(meeting.config), 1,
                                getMeetingNotificationKey(meeting), debugMode, NoFault)
    IN  /\ r.pc = "send"
        /\ sent' = sends.st.sent
        /\ running' = [running EXCEPT ![i] = [r EXCEPT !.pc = "record"]]
        /\ UNCHANGED <<now, props, calendar, debugMode, lastTick, lastCleanup, lastDaily,
                       overlapped, moverVars, toolVars>>

\* processMeeting, third step: recordNotificationSent writes the store
RaceRecord(i) ==
    LET r == running[i]
        meeting == r.meetings[r.n]
        st0 == [props |-> props, sent |-> sent, fetches |-> 0]
        rec == recordNotificationSent(props, meeting, now, FALSE)
    IN  /\ r.pc = "record"
        /\ props' = rec.props
        /\ sent' = IF rec.threw
                   THEN sendErrorNotification(st0, getMeetingNotificationKey(meeting),
                                              NoFault).st.sent
                   ELSE sent
        /\ running' = [running EXCEPT ![i] = NextMeeting(r)]
        /\ UNCHANGED <<now, calendar, debugMode, lastTick, lastCleanup, lastDaily,
                       overlapped, moverVars, toolVars>>

InitRace ==
    /\ now \in {MeetingTime - 2 * MinuteMs, MeetingTime - 90 * SecondMs}
    /\ props = EmptyProps
    /\ calendar \in Calendars
    /\ debugMode = FALSE
    /\ InitLogs

RaceClock == Advance(MinuteMs)

NextRace ==
    \/ RaceClock
    \/ \E i \in Invocations : RaceStart(i)
    \/ \E i \in Invocations : RaceCheck(i)
    \/ \E i \in Invocations : RaceSend(i)
    \/ \E i \in Invocations : RaceRecord(i)

SpecRace == InitRace /\ [][NextRace]_vars

\* the file organizer: files arrive in the source folder and the trigger fires
InitialDrives ==
    {DriveOf(ids) : ids \in {{}, {5, 6}, {1, 2, 3}, {1, 3, 4, 5, 7}}}

InitMover ==
    /\ now = MeetingTime
    /\ props = EmptyProps
    /\ calendar = <<>>
    /\ debugMode \in BOOLEAN
    /\ sent = <<>>
    /\ lastTick = NoTick
    /\ lastCleanup = NoCleanup
    /\ lastDaily = NoDaily
    /\ running = [i \in Invocations |-> Idle]
    /\ overlapped = FALSE
    /\ drive \in InitialDrives
    /\ uploads = <<>>
    /\ posted = <<>>
    /\ lastRun = NoRun
    /\ triggers = <<>>
    /\ lastSetup = NoSetup
    /\ lastHealth = NoHealth
    /\ lastCall = NoCall

MoverTick == \E fault \in MoverFaults : organizeMeetingFiles(fault)

\* the files that turn up later than the others of their meeting
LateFiles == {4, 5}

MoverArrival == \E id \in LateFiles : FileArrives(id)

NextMover == MoverTick \/ MoverArrival

SpecMover == InitMover /\ [][NextMover]_vars

\* the trigger of setupCalendarTrigger: one tick every 60 seconds, the first one at
\* any half second of a minute, three minutes and less before the first start
Phases == {i * HalfSecondMs : i \in 0..119}

InitPhase ==
    /\ now \in {MeetingTime - 3 * MinuteMs + phase : phase \in Phases}
    /\ props = EmptyProps
    /\ calendar \in Calendars
    /\ debugMode = FALSE
    /\ InitLogs

\* the tick that is due at now
PhaseTick ==
    /\ ~(lastTick.ran /\ lastTick.at = now)
    /\ checkCalendarAndNotify(NoFault, FALSE, FALSE)

\* the minute that follows a tick
PhaseClock ==
    /\ lastTick.ran /\ lastTick.at = now
    /\ Advance(MinuteMs)

NextPhase == PhaseClock \/ PhaseTick

\* the enabling condition of PhaseTick (a due tick always changes lastTick)
TickDue == ~(lastTick.ran /\ lastTick.at = now) /\ Len(sent) < MaxSent

\* weak fairness of PhaseTick, WF_vars(PhaseTick), written out with TickDue for
\* ENABLED <<PhaseTick>>_vars
PhaseTickFair == []<>(~TickDue) \/ []<><<PhaseTick>>_vars

\* the trigger keeps firing: neither the due tick nor the next minute is put off forever
SpecPhase == InitPhase /\ [][NextPhase]_vars /\ WF_vars(PhaseClock) /\ PhaseTickFair

\* the triggers of the project before the first setup call: none, one per handler,
\* leftovers of earlier installations, and a trigger of an unrelated function
InitialTriggers ==
    { <<>>,
      <<"onFormSubmit">>,
      <<"checkCalendarAndNotify", "checkCalendarAndNotify", "organizeMeetingFiles">>,
      <<"organizeMeetingFiles", "onFormSubmit", "dailyCleanupNotificationRecords",
        "dailyCleanupNotificationRecords", "dailyCleanupNotificationRecords">> }

InitSetup ==
    /\ now = MeetingTime
    /\ props = EmptyProps
    /\ calendar = <<>>
    /\ debugMode = FALSE
    /\ sent = <<>>
    /\ lastTick = NoTick
    /\ lastCleanup = NoCleanup
    /\ lastDaily = NoDaily
    /\ running = [i \in Invocations |-> Idle]
    /\ overlapped = FALSE
    /\ drive = EmptyDrive
    /\ uploads = <<>>
    /\ posted = <<>>
    /\ lastRun = NoRun
    /\ triggers \in InitialTriggers
    /\ lastSetup = NoSetup
    /\ lastHealth = NoHealth
    /\ lastCall = NoCall

SetupFetchFaults == {NoFault, [at |-> 1, how |-> "throw"]}

SetupCalendar ==
    \E fault \in SetupFaults, fetchFault \in SetupFetchFaults :
        setupCalendarTrigger(fault, fetchFault)

SetupCleanup ==
    \E fault \in SetupFaults, fetchFault \in SetupFetchFaults :
        setupCleanupTriggers(fault, fetchFault)

SetupAutomatic == \E fault \in SetupFaults : setupAutomaticTrigger(fault)

NextSetup == SetupCalendar \/ SetupCleanup \/ SetupAutomatic

SpecSetup == InitSetup /\ [][NextSetup]_vars

\* both jobs of one deployment, with and without the debug flag of their CONFIG
InitDebug ==
    /\ now = MeetingTime - 90 * SecondMs
    /\ props = EmptyProps
    /\ calendar = <<EvAutoscaling, EvCommunity>>
    /\ debugMode \in BOOLEAN
    /\ sent = <<>>
    /\ lastTick = NoTick
    /\ lastCleanup = NoCleanup
    /\ lastDaily = NoDaily
    /\ running = [i \in Invocations |-> Idle]
    /\ overlapped = FALSE
    /\ drive \in {DriveOf({5, 6}), DriveOf({1, 2, 3}), DriveOf({1, 3, 4, 5, 7})}
    /\ uploads = <<>>
    /\ posted = <<>>
    /\ lastRun = NoRun
    /\ triggers = <<>>
    /\ lastSetup = NoSetup
    /\ lastHealth = NoHealth
    /\ lastCall = NoCall

\* the failures tried here: a fetch that throws or answers another status than 200;
\* a target folder, the YouTube service or a webhook of the organizer that fails
DebugFaults == {NoFault, [at |-> 1, how |-> "throw"], [at |-> 2, how |-> "non200"]}

DebugMoverFaults ==
    {NoMoverFault, [op |-> "getFolder", at |-> 2], [op |-> "youtube", at |-> 1],
     [op |-> "post", at |-> 1]}

DebugCalendarTick == \E fault \in DebugFaults : checkCalendarAndNotify(fault, FALSE, FALSE)

DebugMoverTick == \E fault \in DebugMoverFaults : organizeMeetingFiles(fault)

NextDebug == DebugCalendarTick \/ DebugMoverTick

SpecDebug == InitDebug /\ [][NextDebug]_vars

\* Functions tried on their own: the initial state holds the arguments in lastCall, the
\* action calls the function on them and logs the result there; nothing else changes.
callFrame ==
    <<now, props, calendar, debugMode, sent, lastTick, lastCleanup, lastDaily, raceVars,
      triggers, lastSetup, lastHealth>>

InitFrame ==
    /\ now = MeetingTime
    /\ calendar = <<>>
    /\ debugMode = FALSE
    /\ sent = <<>>
    /\ lastTick = NoTick
    /\ lastCleanup = NoCleanup
    /\ lastDaily = NoDaily
    /\ running = [i \in Invocations |-> Idle]
    /\ overlapped = FALSE
    /\ drive = EmptyDrive
    /\ uploads = <<>>
    /\ posted = <<>>
    /\ lastRun = NoRun
    /\ triggers = <<>>
    /\ lastSetup = NoSetup
    /\ lastHealth = NoHealth

MaxEntries == 3      \* entries of a prefix table
MaxTitleWords == 3   \* words of a file name or meeting title

\* prefixes that overlap: one leads another, one occurs inside another
TablePrefixes ==
    {<<"llm-d">>, <<"llm-d", "sig">>, <<"sig">>, <<"[PUBLIC]", "llm-d">>}

TitleWords == {"[PUBLIC]", "llm-d", "sig", "Chat"}

SeqsUpTo(S, n) == UNION {[1..k -> S] : k \in 0..n}

\* CONFIG.MEETING_CONFIGS: an object, so its prefixes are distinct
Tables ==
    {[i \in DOMAIN ps |-> [NoConfig EXCEPT !.prefix = ps[i]]] :
        ps \in {q \in SeqsUpTo(TablePrefixes, MaxEntries) :
                   \A i, j \in DOMAIN q : i # j => q[i] # q[j]}}

Names == SeqsUpTo(TitleWords, MaxTitleWords)

InitMatch ==
    /\ InitFrame
    /\ props = EmptyProps
    /\ lastCall \in [fn : {"args"}, table : Tables, title : Names]

MatchFile ==
    /\ lastCall.fn = "args"
    /\ lastCall' = [lastCall EXCEPT !.fn = "findMatchingConfig"]
                       @@ [result |-> findMatchingConfigIn(lastCall.table, lastCall.title)]
    /\ UNCHANGED callFrame

MatchMeeting ==
    /\ lastCall.fn = "args"
    /\ lastCall' = [lastCall EXCEPT !.fn = "findMatchingMeetingConfig"]
                       @@ [result |-> findMatchingMeetingConfigIn(lastCall.table,
                                                                  lastCall.title)]
    /\ UNCHANGED callFrame

NextMatch == MatchFile \/ MatchMeeting

SpecMatch == InitMatch /\ [][NextMatch]_vars

\* hasAlreadyNotified and recordNotificationSent tried on their own, on occurrences of
\* one recurring series (same event id, a week and a millisecond apart) and of another
\* event at the same instant, over stores that hold a sound or a damaged value under
\* the key of the first occurrence
EvNextWeek == Event(1, TitleAutoscaling, MeetingTime + 7 * 24 * HourMs)
EvMillisecondLater == Event(1, TitleAutoscaling, MeetingTime + 1)

Occurrences == {EvAutoscaling, EvCommunity, EvNextWeek, EvMillisecondLater}

RecordStores ==
    {EmptyProps, PropsOf({OtherEntry(1)})}
        \cup {PropsOf({RecordEntry(1, MeetingTime, MeetingTime - MinuteMs, kind)}) :
                 kind \in DamagedKinds \cup {"json"}}

InitRecord ==
    /\ InitFrame
    /\ props \in RecordStores
    /\ lastCall = NoCall

MaxCalls == 3   \* calls tried in a row

\* what is left alone by a call that may write the store
recordFrame ==
    <<now, calendar, debugMode, sent, lastTick, lastCleanup, lastDaily, raceVars,
      triggers, lastSetup, lastHealth>>

CallCount == IF lastCall = NoCall THEN 0 ELSE lastCall.calls

CallHasAlreadyNotified ==
    /\ CallCount < MaxCalls
    /\ \E meeting \in Occurrences :
          lastCall' = [fn |-> "hasAlreadyNotified", meeting |-> meeting, at |-> now,
                       before |-> props,
                       result |-> hasAlreadyNotified(props, meeting),
                       calls |-> CallCount + 1]
    /\ UNCHANGED <<props, recordFrame>>

CallRecordNotificationSent ==
    /\ CallCount < MaxCalls
    /\ \E meeting \in Occurrences :
       \E r \in {recordNotificationSent(props, meeting, now, FALSE)} :
          /\ props' = r.props
          /\ lastCall' = [fn |-> "recordNotificationSent", meeting |-> meeting,
                          at |-> now, before |-> props, result |-> r,
                          calls |-> CallCount + 1]
    /\ UNCHANGED recordFrame

RecordClock == Advance(MinuteMs)

NextRecord == CallHasAlreadyNotified \/ CallRecordNotificationSent \/ RecordClock

SpecRecord == InitRecord /\ [][NextRecord]_vars

\* monitorStorageHealth run by hand between ticks of the calendar job, on stores around
\* the 80% mark of the quota
HealthSizes == {0, 38, 39, 40, 41, 49}

HealthStores ==
    {BigStore(n, 0, 0, "json", FALSE, nOther) : n \in HealthSizes, nOther \in {0, 1}}
        \cup {BigStore(n, 0, 0, special, FALSE, 0) :
                 n \in {39, 40}, special \in DamagedKinds}
        \cup {PropsOf({OtherEntry(i) : i \in 1..nOther}) : nOther \in {39, 40}}

InitHealth ==
    /\ now = MeetingTime - MinuteMs
    /\ props \in HealthStores
    /\ calendar = <<EvAutoscaling, EvBenchmarking>>
    /\ debugMode = FALSE
    /\ InitLogs

HealthFaults == {NoFault, [at |-> 1, how |-> "throw"]}

HealthCheck ==
    \E fault \in HealthFaults, storeThrows \in BOOLEAN : monitorStorageHealth(fault, storeThrows)

HealthTick == checkCalendarAndNotify(NoFault, FALSE, FALSE)

HealthClock == Advance(MinuteMs)

NextHealth == HealthCheck \/ HealthTick \/ HealthClock

SpecHealth == InitHealth /\ [][NextHealth]_vars

\* the every-minute trigger with start times that are early or late by a few seconds:
\* one tick per scheduled minute, each at the minute boundary or MaxJitterSeconds
\* before or after it
MaxJitterSeconds == 2

Jitters == {(-MaxJitterSeconds) * SecondMs, 0, MaxJitterSeconds * SecondMs}

\* the minute boundary the tick at instant t was scheduled for
Scheduled(t) == ((t + MinuteMs \div 2) \div MinuteMs) * MinuteMs

InitJitter ==
    /\ now = MeetingTime - CleanupEveryMinutes * MinuteMs
    /\ props = EmptyProps
    /\ calendar \in {<<EvLunch>>, <<EvAutoscaling>>}
    /\ debugMode = FALSE
    /\ InitLogs

JitterTick ==
    /\ ~(lastTick.ran /\ lastTick.at = now)
    /\ checkCalendarAndNotify(NoFault, FALSE, FALSE)

\* the trigger fires again for the next minute, early, on time or late
JitterClock ==
    /\ lastTick.ran /\ lastTick.at = now
    /\ \E j \in Jitters : Advance(Scheduled(now) + MinuteMs + j - now)

NextJitter == JitterTick \/ JitterClock

SpecJitter == InitJitter /\ [][NextJitter]_vars

\* both jobs of the project, with an occurrence and a file that match no prefix among
\* those that do
InitSilent ==
    /\ now = MeetingTime - MinuteMs
    /\ props = EmptyProps
    /\ calendar \in {<<EvLunch, EvAutoscaling>>, <<EvAutoscaling, EvLunch, EvBenchmarking>>}
    /\ debugMode \in BOOLEAN
    /\ sent = <<>>
    /\ lastTick = NoTick
    /\ lastCleanup = NoCleanup
    /\ lastDaily = NoDaily
    /\ running = [i \in Invocations |-> Idle]
    /\ overlapped = FALSE
    /\ drive \in {DriveOf({1, 3, 7}), DriveOf({5, 6, 7})}
    /\ uploads = <<>>
    /\ posted = <<>>
    /\ lastRun = NoRun
    /\ triggers = <<>>
    /\ lastSetup = NoSetup
    /\ lastHealth = NoHealth
    /\ lastCall = NoCall

SilentFaults == {NoFault, [at |-> 1, how |-> "throw"]}

SilentMoverFaults ==
    {NoMoverFault} \cup {[op |-> o, at |-> 1] : o \in {"upload", "move"}}

SilentTick == \E fault \in SilentFaults : checkCalendarAndNotify(fault, FALSE, FALSE)

SilentMoverTick == \E fault \in SilentMoverFaults : organizeMeetingFiles(fault)

SilentClock == Advance(MinuteMs)

NextSilent == SilentTick \/ SilentMoverTick \/ SilentClock

SpecSilent == InitSilent /\ [][NextSilent]_vars

\* the maintenance functions on stores that the notification records share with other
\* properties: the records alone are below a threshold that all properties together reach
FrameStores ==
    {BigStore(n, 2, age, special, FALSE, nOther) :
        n \in {29, 44, 47}, age \in {5 * HourMs, 9 * HourMs, 25 * HourMs},
        special \in {"json", "garbage"}, nOther \in {0, 3}}

InitFrameStore ==
    /\ now = MeetingTime
    /\ props \in FrameStores
    /\ calendar = <<EvAutoscaling>>
    /\ debugMode = FALSE
    /\ InitLogs

FrameTick == \E nanFirst \in BOOLEAN : checkCalendarAndNotify(NoFault, FALSE, nanFirst)

FrameDaily == DailyCleanup(NoFault)

FrameClear == \E fault \in {NoFault, [at |-> 1, how |-> "throw"]} : clearAllNotificationRecords(fault)

FrameClock == Advance(MinuteMs)

NextFrame == FrameTick \/ FrameDaily \/ FrameClear \/ FrameClock

SpecFrame == InitFrameStore /\ [][NextFrame]_vars

\* a busy hour: n occurrences start together at MeetingTime, the tick one minute before
\* has announced and recorded them all, and the store also holds m records of the
\* meetings of the minutes, or the hours, before
BusyEvent(i) == Event(200 + i, TitleCommunity, MeetingTime)

BusyCalendar(n) == [i \in 1..n |-> BusyEvent(i)]

BusyStore(n, m, age) ==
    PropsOf({RecordEntry(200 + i, MeetingTime, MeetingTime - MinuteMs, "json") : i \in 1..n}
            \cup {RecordEntry(100 + i, MeetingTime - age - i * MinuteMs,
                              MeetingTime - age - i * MinuteMs, "json") : i \in 1..m})

BusySizes == {<<3, 45>>, <<3, 47>>, <<10, 40>>, <<40, 10>>, <<41, 9>>, <<44, 4>>, <<48, 0>>}

InitBusy ==
    /\ now = MeetingTime
    /\ \E s \in BusySizes, age \in {5 * MinuteMs, 5 * HourMs} :
          /\ calendar = BusyCalendar(s[1])
          /\ props = BusyStore(s[1], s[2], age)
    /\ debugMode = FALSE
    /\ InitLogs

BusyTick ==
    /\ ~(lastTick.ran /\ lastTick.at = now)
    /\ \E fault \in {NoFault, [at |-> 1, how |-> "non200"]}, nanFirst \in BOOLEAN :
          checkCalendarAndNotify(fault, FALSE, nanFirst)

BusyDaily == DailyCleanup(NoFault)

BusyClock == Advance(MinuteMs)

NextBusy == BusyTick \/ BusyDaily \/ BusyClock

SpecBusy == InitBusy /\ [][NextBusy]_vars

\* the manual test entry points, run a day, some hours or two minutes before the
\* meeting, and the scheduled jobs after them
InitTest ==
    /\ now \in {MeetingTime - 25 * HourMs, MeetingTime - 3 * HourMs, MeetingTime - 2 * MinuteMs}
    /\ props = EmptyProps
    /\ calendar \in {<<EvLunch>>, <<EvLunch, EvAutoscaling>>, <<EvCommunity, EvBenchmarking>>}
    /\ debugMode \in BOOLEAN
    /\ sent = <<>>
    /\ lastTick = NoTick
    /\ lastCleanup = NoCleanup
    /\ lastDaily = NoDaily
    /\ running = [i \in Invocations |-> Idle]
    /\ overlapped = FALSE
    /\ drive = DriveOf({1, 3, 7})
    /\ uploads = <<>>
    /\ posted = <<>>
    /\ lastRun = NoRun
    /\ triggers = <<>>
    /\ lastSetup = NoSetup
    /\ lastHealth = NoHealth
    /\ lastCall = NoCall

TestFaults == {NoFault, [at |-> 1, how |-> "throw"]}

\* one manual test in the period
TestCalendarDebug ==
    /\ lastCall = NoCall
    /\ \E calendarFound \in BOOLEAN, fault \in TestFaults, storeFault \in BOOLEAN :
          checkCalendarAndNotifyDebug(calendarFound, fault, storeFault)

TestNextMeeting ==
    /\ lastCall = NoCall
    /\ \E calendarFound \in BOOLEAN, eventsThrow \in BOOLEAN, fault \in TestFaults,
          storeFault \in BOOLEAN :
          testNextMeetingNotification(calendarFound, eventsThrow, fault, storeFault)

TestOrganizer ==
    /\ lastCall = NoCall
    /\ \E fault \in {NoMoverFault, [op |-> "getFolder", at |-> 1]} : testDebugMode(fault)

\* the every-minute trigger: one tick at an instant
TestTick ==
    /\ ~(lastTick.ran /\ lastTick.at = now)
    /\ checkCalendarAndNotify(NoFault, FALSE, FALSE)

\* the daily trigger, ten minutes before the meeting
TestDaily ==
    /\ ~lastDaily.ran
    /\ now = MeetingTime - CleanupEveryMinutes * MinuteMs
    /\ DailyCleanup(NoFault)

\* time passes once the tick of the minute has run: to ten minutes before the meeting,
\* when a tick runs the cleanup, and from there minute by minute
TestClock ==
    /\ lastTick.ran /\ lastTick.at = now
    /\ IF now < MeetingTime - CleanupEveryMinutes * MinuteMs
       THEN Advance(MeetingTime - CleanupEveryMinutes * MinuteMs - now)
       ELSE Advance(MinuteMs)

NextTest ==
    TestCalendarDebug \/ TestNextMeeting \/ TestOrganizer \/ TestTick \/ TestDaily \/ TestClock

SpecTest == InitTest /\ [][NextTest]_vars

-----------------------------------------------------------------------------
(* Properties                                                              *)

Range(f) == {f[i] : i \in DOMAIN f}

\* the POSTs of kind "meeting" about occurrence key k to channel c
Dispatches(k, c) ==
    {i \in 1..Len(sent) : sent[i].kind = "meeting" /\ sent[i].about = k /\ sent[i].channel = c}

DispatchesOf(k) == {i \in 1..Len(sent) : sent[i].kind = "meeting" /\ sent[i].about = k}

\* no POST failed and no error was reported: every send and every store access succeeded
AllSucceeded == \A i \in 1..Len(sent) : sent[i].outcome = "ok" /\ sent[i].kind # "error"

\* the occurrences of the calendar that match a configured prefix
Matching == {e \in Range(calendar) : findMatchingMeetingConfig(e.title) # NoConfig}

\* the record value says it was written at instant t
WrittenAt(value) == value.notifiedAt[1] * 1000 + value.notifiedAt[2]

\* C1: while every send and every store write succeeds, however many ticks run inside
\* the tolerance window of a matching occurrence, each of its destinations gets the
\* notification at most once, all destinations get it in the same (first) tick, and
\* from then on a NotificationRecord of the occurrence is in the store.
C1_IdempotentNotification ==
    AllSucceeded =>
        \A e \in Matching :
            LET k == KeyOf(e)
                channels == getChannelsToNotify(findMatchingMeetingConfig(e.title))
            IN  /\ \A c \in Range(channels) : Cardinality(Dispatches(k, c.name)) <= 1
                /\ Cardinality(DispatchesOf(k)) \in {0, Len(channels)}
                /\ DispatchesOf(k) # {} => k \in NotificationKeys(props)
                /\ (lastTick.ran /\ k \in Range(lastTick.found)) =>
                      /\ Cardinality(DispatchesOf(k)) = Len(channels)
                      /\ k \in NotificationKeys(props)

\* C1 witness: a later tick, at another instant of the window, found the occurrence
\* notified and skipped it; both destinations have exactly one message
C1_Witness ==
    LET k == KeyOf(EvAutoscaling)
    IN  /\ AllSucceeded
        /\ lastTick.ran
        /\ \E i \in DOMAIN lastTick.outcomes :
              lastTick.outcomes[i] = [key |-> k, outcome |-> "skipped"]
        /\ Cardinality(DispatchesOf(k)) = 2
        /\ k \in NotificationKeys(props)
        /\ WrittenAt(props[k]) = MeetingTime - 30 * 1000
        /\ lastTick.at = MeetingTime + 30 * 1000

\* C2 (as claimed): when a send of processMeeting throws partway through the
\* destination list, the occurrence is recorded as notified when the tick ends, and
\* once a send for an occurrence has thrown no later dispatch of it is made.
C2_PartialFailureStillRecorded ==
    /\ \A i \in DOMAIN lastTick.outcomes :
          lastTick.outcomes[i].outcome = "send-error"
              => lastTick.outcomes[i].key \in NotificationKeys(props)
    /\ \A i, j \in 1..Len(sent) :
          (i < j /\ sent[i].kind = "meeting" /\ sent[i].outcome = "throw")
              => ~(sent[j].kind = "meeting" /\ sent[j].about = sent[i].about)

RecordsBefore(log) == NotificationKeys(log.before)

Dated(log) == {k \in RecordsBefore(log) : log.before[k].kind = "json"}

\* the dated records written more than h hours before the pass ran
OlderThan(log, h) ==
    {k \in Dated(log) : WrittenAt(log.before[k]) < log.at - h * 60 * 60 * 1000}

\* the records whose stored value makes JSON.parse throw
Unparseable(log) == {k \in RecordsBefore(log) : log.before[k].kind \in {"garbage", "empty"}}

\* C4 (as claimed): when the emergency pass of cleanup() runs (at least 48 records
\* remain after the horizon pass), at most 40 notification records are left in the
\* store when cleanup() returns.
C4_EmergencyLeavesAtMost40 ==
    (lastCleanup.ran /\ lastCleanup.remainingRecords >= 48)
        => Cardinality(lastCleanup.afterKeys) <= 40

\* C5 (as claimed): with 46 notification records, cleanup() uses the 4-hour horizon
\* and deletes all records older than 4 hours, and if fewer than 2 of them are older
\* than 4 hours the emergency pass deletes the oldest until at most 40 remain.
C5_FortySixOriginal ==
    (lastCleanup.ran /\ lastCleanup.startCount = 46) =>
        /\ lastCleanup.cutoffHours = 4
        /\ OlderThan(lastCleanup, 4) \cap lastCleanup.afterKeys = {}
        /\ Cardinality(OlderThan(lastCleanup, 4)) < 2
              => Cardinality(lastCleanup.afterKeys) <= 40

\* C5 (amended): with 46 notification records, cleanup() uses the 4-hour horizon and
\* deletes all records older than 4 hours; the emergency pass does not run, so every
\* parseable record that is not older than 4 hours is kept, however few were older.
C5_FortySixAmended ==
    (lastCleanup.ran /\ lastCleanup.startCount = 46) =>
        /\ lastCleanup.cutoffHours = 4
        /\ OlderThan(lastCleanup, 4) \cap lastCleanup.afterKeys = {}
        /\ lastCleanup.removed = {}
        /\ Dated(lastCleanup) \ OlderThan(lastCleanup, 4) \subseteq lastCleanup.afterKeys

\* C5 witness: 46 records, fewer than 2 older than 4 hours, and more than 40 are left
C5_Witness ==
    /\ lastCleanup.ran
    /\ lastCleanup.startCount = 46
    /\ Cardinality(OlderThan(lastCleanup, 4)) < 2
    /\ Cardinality(lastCleanup.afterKeys) > 40

\* C6: cleanup() takes its horizon from the number of notification records it finds
\* (>= 45: 4 h, 30..44: 8 h, below 30: 24 h), and its horizon pass deletes exactly the
\* parseable records written earlier than now minus that horizon.
C6_HorizonByLoad ==
    lastCleanup.ran =>
        LET count == Cardinality(RecordsBefore(lastCleanup))
            horizon == IF count >= 45 THEN 4 ELSE IF count >= 30 THEN 8 ELSE 24
        IN  /\ lastCleanup.cutoffHours = horizon
            /\ lastCleanup.aged = OlderThan(lastCleanup, horizon)
            /\ lastCleanup.aged \cap lastCleanup.afterKeys = {}
            /\ lastCleanup.remainingRecords < 48
                  => Dated(lastCleanup) \ OlderThan(lastCleanup, horizon)
                         \subseteq lastCleanup.afterKeys

\* C6 witness: exactly 45 records, the 4-hour horizon is used and deletes some but not all
C6_Witness ==
    /\ lastCleanup.ran
    /\ Cardinality(RecordsBefore(lastCleanup)) = 45
    /\ lastCleanup.cutoffHours = 4
    /\ lastCleanup.aged # {}
    /\ lastCleanup.afterKeys # {}

\* C7: unless the emergency pass is triggered (48 or more records remain after the
\* horizon pass), cleanup() deletes no parseable record written less than 4 hours ago.
C7_YoungRecordsKept ==
    (lastCleanup.ran /\ lastCleanup.remainingRecords < 48) =>
        \A k \in Dated(lastCleanup) :
            WrittenAt(lastCleanup.before[k]) > lastCleanup.at - 4 * 60 * 60 * 1000
                => k \in lastCleanup.afterKeys

\* C7 witness: the aggressive horizon was in force, a record of 3 hours ago survived
\* and an older one was deleted
C7_Witness ==
    /\ lastCleanup.ran
    /\ lastCleanup.startCount >= 45
    /\ lastCleanup.remainingRecords < 48
    /\ lastCleanup.aged # {}
    /\ \E k \in lastCleanup.afterKeys \cap Dated(lastCleanup) :
          WrittenAt(lastCleanup.before[k]) <= lastCleanup.at - 3 * 60 * 60 * 1000

\* C8: a notification record whose value fails to parse is gone when cleanup()
\* returns, whatever its age and the horizon, and gone when the daily pass returns.
C8_CorruptedPurged ==
    /\ lastCleanup.ran => Unparseable(lastCleanup) \cap lastCleanup.afterKeys = {}
    /\ lastDaily.ran => Unparseable(lastDaily) \cap lastDaily.afterKeys = {}

\* C8 witness: cleanup() under the 24-hour horizon deleted an unparseable record of a
\* meeting of less than an hour ago
C8_Witness ==
    /\ lastCleanup.ran
    /\ lastCleanup.cutoffHours = 24
    /\ \E k \in Unparseable(lastCleanup) :
          /\ k.iso[1] * 1000 > lastCleanup.at - 60 * 60 * 1000
          /\ k \notin lastCleanup.afterKeys

C10_EveryRecordExpires ==
    lastCleanup.ran =>
        \A k \in lastCleanup.afterKeys :
            k.iso[1] * 1000 + k.iso[2] >= lastCleanup.at - (24 * 60 * 60 + 90) * 1000

\* the POSTs the last tick made
LastTickPosts == (lastTick.sentBefore + 1)..Len(sent)

HasOutcome(log, k, outcome) ==
    \E i \in DOMAIN log.outcomes : log.outcomes[i] = [key |-> k, outcome |-> outcome]

\* C11: when the record write of an occurrence failed after its messages went out,
\* the next tick that finds the occurrence inside the tolerance window does not skip
\* it: unless a send throws, it posts the announcement again, once to every
\* destination of the occurrence.
C11_FailedWriteRedispatches ==
    [][\A e \in Matching :
          LET k == KeyOf(e)
              channels == getChannelsToNotify(findMatchingMeetingConfig(e.title))
              again == {i \in (Len(sent) + 1)..Len(sent') :
                          sent'[i].kind = "meeting" /\ sent'[i].about = k}
          IN  ( /\ HasOutcome(lastTick, k, "write-error")
                /\ lastTick' # lastTick
                /\ k \in Range(lastTick'.found)
                /\ \A i \in again : sent'[i].outcome # "throw" )
              => /\ ~HasOutcome(lastTick', k, "skipped")
                 /\ ~HasOutcome(lastTick', k, "read-error")
                 /\ \A c \in DOMAIN channels :
                       Cardinality({i \in again : sent'[i].channel = channels[c].name}) = 1
      ]_vars

\* C11 witness: both destinations got the announcement, the write failed and was
\* reported, and the next tick posted the announcement to both destinations again
C11_Witness ==
    LET k == KeyOf(EvAutoscaling)
    IN  /\ Len(sent) >= 5
        /\ \A i \in {1, 2, 4, 5} :
              sent[i].kind = "meeting" /\ sent[i].about = k /\ sent[i].outcome = "ok"
        /\ sent[3].kind = "error" /\ sent[3].about = k
        /\ sent[1].channel = sent[4].channel /\ sent[2].channel = sent[5].channel
        /\ sent[1].channel # sent[2].channel
        /\ lastTick.sentBefore = 3

\* C12: getChannelsToNotify gives, for every configured prefix other than the
\* community prefix, exactly two destinations, the entry's own channel first and the
\* community channel second, and for the community prefix exactly one, the community
\* channel; a tick that notifies an occurrence posts to exactly these, in this order.
C12_ChannelFanOut ==
    LET community == [webhook |-> "hook-community", name |-> "#community"]
    IN  /\ \A i \in DOMAIN MEETING_CONFIGS :
              LET cfg == MEETING_CONFIGS[i]
                  own == [webhook |-> cfg.slackWebhook, name |-> cfg.slackChannel]
              IN  getChannelsToNotify(cfg) =
                      IF cfg.prefix = <<"[PUBLIC]", "llm-d", "Community", "Meeting">>
                      THEN <<community>> ELSE <<own, community>>
        /\ \A n \in DOMAIN lastTick.outcomes :
              lastTick.outcomes[n].outcome = "notified" =>
                  LET k == lastTick.outcomes[n].key
                      e == CHOOSE e \in Matching : KeyOf(e) = k
                      isCommunity == StartsWith(e.title, <<"[PUBLIC]", "llm-d", "Community", "Meeting">>)
                      posts == SelectSeq(SubSeq(sent, lastTick.sentBefore + 1, Len(sent)),
                                         LAMBDA m : m.kind = "meeting" /\ m.about = k)
                  IN  /\ Len(posts) = IF isCommunity THEN 1 ELSE 2
                      /\ posts[Len(posts)].channel = "#community"
                      /\ ~isCommunity =>
                            posts[1].channel = findMatchingMeetingConfig(e.title).slackChannel

\* C12 witness: one tick notified a sig meeting (two posts) and the community meeting
\* (one post)
C12_Witness ==
    /\ HasOutcome(lastTick, KeyOf(EvAutoscaling), "notified")
    /\ HasOutcome(lastTick, KeyOf(EvCommunity), "notified")
    /\ Cardinality(DispatchesOf(KeyOf(EvAutoscaling))) = 2
    /\ Cardinality(DispatchesOf(KeyOf(EvCommunity))) = 1

\* C20: an error while processing one occurrence of a tick (store read, send, store
\* write) is caught in processMeeting and posted to the error destination; every
\* occurrence the tick found is processed, in order, and no exception reaches the
\* catch block of the tick.
C20_ErrorsContained ==
    lastTick.ran =>
        /\ ~lastTick.caught
        /\ Len(lastTick.outcomes) = Len(lastTick.found)
        /\ \A n \in DOMAIN lastTick.outcomes :
              /\ lastTick.outcomes[n].key = lastTick.found[n]
              /\ lastTick.outcomes[n].outcome \in {"read-error", "send-error", "write-error"}
                    => \E j \in LastTickPosts :
                          /\ sent[j].kind = "error"
                          /\ sent[j].about = lastTick.found[n]
                          /\ sent[j].webhook = "hook-default"

\* C20 witness: the first occurrence of a tick failed and even its error report
\* threw, and the second occurrence of the same tick was still processed
C20_Witness ==
    /\ lastTick.ran
    /\ Len(lastTick.found) = 2
    /\ Len(lastTick.outcomes) = 2
    /\ lastTick.outcomes[1].outcome \in {"read-error", "send-error", "write-error"}
    /\ \E j \in LastTickPosts :
          /\ sent[j].kind = "error"
          /\ sent[j].about = lastTick.found[1]
          /\ sent[j].outcome = "throw"
    /\ \E j \in LastTickPosts : sent[j].about = lastTick.found[2]

\* C13: with one tick every 60 seconds, whatever the phase, and sends that succeed,
\* every occurrence with a configured prefix is found by some tick and from some tick
\* on each of its destinations has got its announcement; at no time has a destination
\* got it more than once.
C13_EveryOccurrenceNotifiedOnce ==
    /\ [](\A e \in Matching :
             \A c \in Range(getChannelsToNotify(findMatchingMeetingConfig(e.title))) :
                 Cardinality(Dispatches(KeyOf(e), c.name)) <= 1)
    /\ <>[](\A e \in Matching :
               /\ KeyOf(e) \in NotificationKeys(props)
               /\ \A c \in Range(getChannelsToNotify(findMatchingMeetingConfig(e.title))) :
                     Cardinality(Dispatches(KeyOf(e), c.name)) = 1)

\* C13 witness: ticks at second 59.5 of every minute; both configured occurrences
\* (starting one minute apart) were announced once to both destinations, and the last
\* tick found one of them again and skipped it
C13_Witness ==
    /\ calendar = <<EvAutoscaling, EvLunch, EvBenchmarking>>
    /\ lastTick.ran
    /\ lastTick.at % (60 * 1000) = 59500
    /\ \E n \in DOMAIN lastTick.outcomes : lastTick.outcomes[n].outcome = "skipped"
    /\ \A e \in {EvAutoscaling, EvBenchmarking} :
          /\ Cardinality(DispatchesOf(KeyOf(e))) = 2
          /\ \A i \in DispatchesOf(KeyOf(e)) : sent[i].outcome = "ok"

\* C14: hasAlreadyNotified and recordNotificationSent are separate steps.  As long as
\* no invocation of the tick was started while another one was in progress, no
\* destination has got the announcement of an occurrence twice.
C14_SerialTicksNeverDuplicate ==
    ~overlapped =>
        \A e \in Matching :
            \A c \in Range(getChannelsToNotify(findMatchingMeetingConfig(e.title))) :
                Cardinality(Dispatches(KeyOf(e), c.name)) <= 1

\* C14 witness: two invocations overlapped, both passed hasAlreadyNotified before
\* either had written the record (both are at the write step, the store is still
\* empty), and each destination has got the announcement twice
C14_Witness ==
    LET k == KeyOf(EvAutoscaling)
    IN  /\ overlapped
        /\ \A i \in {1, 2} :
              /\ running[i].pc = "record"
              /\ getMeetingNotificationKey(running[i].meetings[running[i].n]) = k
        /\ k \notin DOMAIN props
        /\ Cardinality(Dispatches(k, "#sig-autoscaling")) = 2
        /\ Cardinality(Dispatches(k, "#community")) = 2

-----------------------------------------------------------------------------
(* Properties of the file organizer                                        *)

\* the POSTs of the last run of the organizer
RunPosts == SubSeq(posted, lastRun.postedBefore + 1, Len(posted))

\* the run announced the title in a message about moved (or, in debug mode, movable) files
Announced(title) ==
    \E n \in DOMAIN RunPosts :
        /\ RunPosts[n].kind \in {"files", "debug"}
        /\ \E i \in DOMAIN RunPosts[n].files : RunPosts[n].files[i] = title

\* the listing of the last run holds a non-chat file of the prefix with the words
HasRole(listing, prefix, words) ==
    \E j \in DOMAIN listing :
        /\ findMatchingConfig(listing[j].title).prefix = prefix
        /\ ~findMatchingConfig(listing[j].title).isChat
        /\ Includes(listing[j].title, words)

\* C15: a regular file whose prefix lacks a 'Notes by Gemini' or a 'Recording' file in
\* the listing of a run is neither moved nor announced by that run, whatever else
\* happens in it; a run without a failure and out of debug mode leaves every chat
\* file, and every regular file whose prefix has both roles in its listing, in the
\* target folder of its configuration, whatever the runs before it saw.
C15_PairingCompleteness ==
    lastRun.ran =>
        LET listing == findMeetingFiles(lastRun.before)
        IN  \A i \in DOMAIN listing :
                LET f == listing[i]
                    m == findMatchingConfig(f.title)
                    paired == /\ HasRole(listing, m.prefix, NotesMarker)
                              /\ HasRole(listing, m.prefix, RecordingMarker)
                IN  /\ (~m.isChat /\ ~paired) =>
                           /\ lastRun.after[f.id] = lastRun.before[f.id]
                           /\ ~Announced(f.title)
                    /\ (lastRun.fault = NoMoverFault /\ ~lastRun.debug
                          /\ (m.isChat \/ paired)) =>
                           lastRun.after[f.id].parents = {m.config.targetFolderId}

\* C15 witness: the run before the last one found the sig-autoscaling notes without a
\* recording and moved only the chat file; the recording arrived, and the last run
\* moved both and announced them
C15_Witness ==
    /\ lastRun.ran
    /\ MEETING_CONFIGS[1].prefix \in lastRun.prevDeferred
    /\ {4, 5, 6} \subseteq DOMAIN lastRun.before
    /\ lastRun.before[6].parents = {"folder-sig-autoscaling"}
    /\ \A id \in {4, 5} :
          /\ lastRun.before[id].parents = {SOURCE_FOLDER_ID}
          /\ lastRun.after[id].parents = {"folder-sig-autoscaling"}
    /\ Announced(FileNames[4])
    /\ Announced(FileNames[5])

\* C16: a run without a failure and out of debug mode whose listing holds the files of
\* one prefix, with a 'Notes by Gemini' and a 'Recording' file among them and no chat
\* file, leaves each of them in the target folder of the prefix alone and sends
\* exactly one message, to the webhook of the prefix, naming all of them; a run whose
\* listing is empty changes no file and sends nothing.
C16_MoveOnceThenIdle ==
    (lastRun.ran /\ lastRun.fault = NoMoverFault /\ ~lastRun.debug) =>
        LET listing == findMeetingFiles(lastRun.before)
            first == findMatchingConfig(listing[1].title)
            onePair == /\ listing # <<>>
                       /\ \A i \in DOMAIN listing :
                             /\ findMatchingConfig(listing[i].title).prefix = first.prefix
                             /\ ~findMatchingConfig(listing[i].title).isChat
                       /\ HasRole(listing, first.prefix, NotesMarker)
                       /\ HasRole(listing, first.prefix, RecordingMarker)
        IN  /\ onePair =>
                  /\ \A i \in DOMAIN listing :
                        lastRun.after[listing[i].id].parents = {first.config.targetFolderId}
                  /\ Len(RunPosts) = 1
                  /\ RunPosts[1].webhook = first.config.slackWebhook
                  /\ RunPosts[1].kind = "files"
                  /\ RunPosts[1].outcome = "ok"
                  /\ RunPosts[1].files = Titles(listing)
            /\ listing = <<>> =>
                  /\ lastRun.after = lastRun.before
                  /\ RunPosts = <<>>
                  /\ lastRun.groups = <<>>

\* C16 witness: the sig-autoscaling notes and recording have been moved and announced
\* by one message, and the last run, after that, found the source folder without a
\* matching file
C16_Witness ==
    /\ lastRun.ran /\ lastRun.fault = NoMoverFault /\ ~lastRun.debug
    /\ DOMAIN drive = {4, 5}
    /\ \A id \in {4, 5} : drive[id].parents = {"folder-sig-autoscaling"}
    /\ Len(posted) = 1
    /\ posted[1].webhook = "hook-sig-autoscaling"
    /\ posted[1].files = <<FileNames[4], FileNames[5]>>
    /\ lastRun.postedBefore = 1
    /\ findMeetingFiles(lastRun.before) = <<>>

\* the keys of the groups that a run would act on, given the drive
ActionableKeys(d) ==
    LET gs == groupFilesByMeetingConfig(findMeetingFiles(d))
    IN  {gs[n].key : n \in DOMAIN gs}

\* C17: when the upload of a recording of a group failed in a run, every file of the
\* group has the parents it had before the run, the run sent no message about the
\* files of the group, every other group of the run was processed to its end, and the
\* drive the run leaves behind still makes the group actionable.
C17_UploadFailureContained ==
    lastRun.ran =>
        \A n \in DOMAIN lastRun.groups :
            (lastRun.groups[n].ids \cap lastRun.failedUploads # {}) =>
                /\ \A id \in lastRun.groups[n].ids :
                      lastRun.after[id].parents = lastRun.before[id].parents
                /\ \A p \in DOMAIN RunPosts :
                      RunPosts[p].about = lastRun.groups[n].key =>
                          RunPosts[p].kind = "error"
                /\ Len(lastRun.outcomes) = Len(lastRun.groups)
                /\ lastRun.outcomes[n].outcome = "upload-failed"
                /\ \A k \in DOMAIN lastRun.groups :
                      k # n => /\ lastRun.outcomes[k].key = lastRun.groups[k].key
                               /\ lastRun.outcomes[k].outcome = "done"
                               /\ \A id \in lastRun.groups[k].ids :
                                     lastRun.after[id].parents # lastRun.before[id].parents
                /\ lastRun.groups[n].key \in ActionableKeys(lastRun.after)

\* C17 witness: the upload of the community recording failed; the run reported it,
\* left the community files in the source folder and moved the sig-autoscaling pair
C17_Witness ==
    /\ lastRun.ran
    /\ lastRun.fault.op = "upload"
    /\ lastRun.failedUploads = {1}
    /\ Len(lastRun.groups) = 2
    /\ \A id \in {1, 3} : lastRun.after[id].parents = {SOURCE_FOLDER_ID}
    /\ \A id \in {4, 5} : lastRun.after[id].parents = {"folder-sig-autoscaling"}
    /\ \E p \in DOMAIN RunPosts : RunPosts[p].kind = "error"
    /\ \E p \in DOMAIN RunPosts : RunPosts[p].webhook = "hook-sig-autoscaling"

\* the accepted uploads of a file
UploadsOf(id) == {i \in DOMAIN uploads : uploads[i] = id}

\* C18: no file has been accepted by the video service more than once, whatever
\* uploads failed and whatever reads and writes of the upload marker failed in the
\* runs so far.
C18_UploadedAtMostOnce ==
    \A id \in DOMAIN drive : Cardinality(UploadsOf(id)) <= 1

\* C19: a failure while a run acts on one group (the lookup of its target folder, the
\* move of its files, the re-read of its files for the message, or its notification)
\* is reported to the error webhook, no exception leaves the loop, and every group of
\* the run is processed.
C19_GroupFailureContained ==
    (lastRun.ran /\ lastRun.fault.op \in {"getFolder", "move", "addFile", "reread", "post"}) =>
        /\ ~lastRun.threw
        /\ Len(lastRun.outcomes) = Len(lastRun.groups)
        /\ \E p \in DOMAIN RunPosts :
              RunPosts[p].kind = "error" /\ RunPosts[p].webhook = DEFAULT_WEBHOOK

\* C21: a run of the organizer in which the target folder of a matched entry cannot
\* be resolved reports the error and ends before any effect: no file has changed its
\* parents or its upload marker, and no message about files has been sent.
C21_MissingFolderAbortsBeforeEffects ==
    (lastRun.ran /\ lastRun.fault.op = "getFolder") =>
        /\ lastRun.threw
        /\ \E p \in DOMAIN RunPosts : RunPosts[p].kind = "error"
        /\ lastRun.after = lastRun.before
        /\ \A p \in DOMAIN RunPosts : RunPosts[p].kind = "error"

-----------------------------------------------------------------------------
(* Properties of the setup and monitoring functions                        *)

\* the triggers of a handler function among ts
TriggersOf(ts, handler) == {i \in DOMAIN ts : ts[i] = handler}

\* the triggers of every other function, in order
OthersOf(ts, handler) == SelectSeq(ts, LAMBDA h : h # handler)

\* C22: as long as no setup call has failed, every handler that a setup call has
\* registered has exactly one trigger; and a setup call, failed or not, leaves the
\* triggers of every other function as they were.
C22_SetupIdempotent ==
    lastSetup.ran =>
        /\ lastSetup.clean =>
              \A h \in lastSetup.registered : Cardinality(TriggersOf(triggers, h)) = 1
        /\ OthersOf(triggers, lastSetup.handler) = OthersOf(lastSetup.before, lastSetup.handler)

\* C22 witness: every setup function has run without error, the last one on a project
\* that had three triggers of its handler, and the trigger of the unrelated function
\* is still there
C22_Witness ==
    /\ lastSetup.ran /\ lastSetup.clean
    /\ lastSetup.registered = Handlers
    /\ Cardinality(TriggersOf(lastSetup.before, lastSetup.handler)) = 3
    /\ Cardinality(TriggersOf(triggers, "onFormSubmit")) = 1
    /\ Len(triggers) = 4

-----------------------------------------------------------------------------
(* Properties of the two jobs together                                     *)

\* C23: with the debug flag set, every POST of either job has gone to DEFAULT_WEBHOOK;
\* every meeting announcement carries the debug prefix; a run of the organizer without
\* a failure has sent the debug message of every regular group it acted on; and no
\* file has left the source folder, got the upload marker or been uploaded.
C23_DebugReroutesEverything ==
    debugMode =>
        /\ \A i \in DOMAIN sent :
              /\ sent[i].webhook = DEFAULT_WEBHOOK
              /\ sent[i].kind = "meeting" => sent[i].debugPrefix
        /\ \A p \in DOMAIN posted :
              /\ posted[p].webhook = DEFAULT_WEBHOOK
              /\ posted[p].kind # "files"
        /\ (lastRun.ran /\ lastRun.fault = NoMoverFault) =>
              \A n \in DOMAIN lastRun.groups :
                  ~lastRun.groups[n].key.chat =>
                      \E p \in DOMAIN RunPosts :
                          /\ RunPosts[p].kind = "debug"
                          /\ RunPosts[p].about = lastRun.groups[n].key
        /\ uploads = <<>>
        /\ \A id \in DOMAIN drive :
              drive[id].parents = {SOURCE_FOLDER_ID} /\ ~drive[id].uploaded

\* C23 witness: in debug mode the calendar job has announced the sig-autoscaling
\* meeting, for both of its channels, to DEFAULT_WEBHOOK, and the organizer has run
\* over the community pair (whose recording it would upload) and the sig-autoscaling
\* pair and has sent a debug message for each
C23_Witness ==
    /\ debugMode
    /\ \A c \in {"#sig-autoscaling", "#community"} :
          \E i \in DOMAIN sent :
              /\ sent[i].kind = "meeting" /\ sent[i].about = KeyOf(EvAutoscaling)
              /\ sent[i].channel = c /\ sent[i].outcome = "ok"
    /\ lastRun.ran /\ lastRun.fault = NoMoverFault
    /\ Len(lastRun.groups) = 2
    /\ Len(RunPosts) = 2

-----------------------------------------------------------------------------
(* Properties of functions tried on their own                              *)

\* the entries of the table whose prefix occurs in (inside = TRUE) or leads the name
MatchingEntries(table, title, inside) ==
    {i \in DOMAIN table : IF inside THEN Includes(title, table[i].prefix)
                          ELSE StartsWith(title, table[i].prefix)}

\* C24: findMatchingConfig answers 'no match' when no prefix of the table occurs in
\* the name, and otherwise the one entry whose prefix occurs in it and is preceded in
\* the table by no other such entry; findMatchingMeetingConfig does the same with
\* prefixes that lead the title.
C24_FirstMatchWins ==
    /\ lastCall.fn = "findMatchingConfig" =>
          LET hits == MatchingEntries(lastCall.table, lastCall.title, TRUE)
          IN  IF hits = {} THEN lastCall.result = NoMatch
              ELSE \E i \in hits :
                      /\ \A j \in hits : i <= j
                      /\ lastCall.result.config = lastCall.table[i]
                      /\ lastCall.result.prefix = lastCall.table[i].prefix
    /\ lastCall.fn = "findMatchingMeetingConfig" =>
          LET hits == MatchingEntries(lastCall.table, lastCall.title, FALSE)
          IN  IF hits = {} THEN lastCall.result = NoConfig
              ELSE \E i \in hits :
                      /\ \A j \in hits : i <= j
                      /\ lastCall.result = lastCall.table[i]

\* C24 witness: two prefixes of the table occur in the name, those of the second and the
\* third entry among them, and the entry returned is the second of the table
C24_Witness ==
    /\ lastCall.fn = "findMatchingConfig"
    /\ Len(lastCall.table) = 3
    /\ MatchingEntries(lastCall.table, lastCall.title, TRUE) = {2, 3}
    /\ lastCall.result.prefix = lastCall.table[2].prefix

\* C25: hasAlreadyNotified throws nothing and answers true exactly when the store
\* holds a property under the key of the occurrence, whatever its value.
C25_HasNotifiedIffRecordExists ==
    lastCall.fn = "hasAlreadyNotified" =>
        /\ ~lastCall.result.threw
        /\ lastCall.result.result <=> KeyOf(lastCall.meeting) \in DOMAIN lastCall.before

\* the properties of the store that belong to the occurrence: its event id and start
RecordsOf(p, meeting) ==
    {k \in NotificationKeys(p) : k.id = meeting.id /\ NewDate(k.iso) = meeting.startTime}

\* C26: after recordNotificationSent has written an occurrence, once or again, the
\* store holds exactly one record of it, under its key, and every other property is
\* as before; hasAlreadyNotified then answers for every other occurrence what it
\* answered before; and two occurrences have the same key exactly when they have the
\* same event id and the same start instant.
C26_RecordIsIdempotentUpsert ==
    /\ \A m1, m2 \in Occurrences :
          getMeetingNotificationKey(m1) = getMeetingNotificationKey(m2)
              <=> (m1.id = m2.id /\ m1.startTime = m2.startTime)
    /\ (lastCall.fn = "recordNotificationSent" /\ ~lastCall.result.threw) =>
          LET key == getMeetingNotificationKey(lastCall.meeting)
          IN  /\ RecordsOf(props, lastCall.meeting) = {key}
              /\ DOMAIN props = DOMAIN lastCall.before \cup {key}
              /\ \A k \in DOMAIN lastCall.before \ {key} : props[k] = lastCall.before[k]
              /\ JSONparse(props[key]).notifiedAt = toISOString(lastCall.at)
              /\ \A m \in Occurrences :
                    (m.id # lastCall.meeting.id \/ m.startTime # lastCall.meeting.startTime)
                        => hasAlreadyNotified(props, m)
                              = hasAlreadyNotified(lastCall.before, m)

\* C26 witness: the occurrence has been written for the third time, a minute after
\* the time stored before; the store holds its record alone, and next week's
\* occurrence of the series and the occurrence a millisecond later count as not
\* notified
C26_Witness ==
    /\ lastCall.fn = "recordNotificationSent"
    /\ lastCall.calls = 3
    /\ lastCall.meeting = EvAutoscaling
    /\ KeyOf(EvAutoscaling) \in DOMAIN lastCall.before
    /\ JSONparse(lastCall.before[KeyOf(EvAutoscaling)]).notifiedAt # toISOString(lastCall.at)
    /\ NotificationKeys(props) = {KeyOf(EvAutoscaling)}
    /\ ~hasAlreadyNotified(props, EvNextWeek).result
    /\ ~hasAlreadyNotified(props, EvMillisecondLater).result

-----------------------------------------------------------------------------
(* Properties of the maintenance functions                                 *)

\* C27: whatever the number of records, the daily pass deletes every record with a
\* write time of more than 6 hours before the pass and every record whose value does
\* not parse, and keeps every record with a write time of less than 6 hours before
\* the pass; the horizon of the adaptive cleanup plays no part.
C27_DailyPassFixedHorizon ==
    lastDaily.ran =>
        \A k \in NotificationKeys(lastDaily.before) :
            LET v == lastDaily.before[k]
                written == NewDate(v.notifiedAt)
            IN  /\ (v.kind = "json" /\ lastDaily.at - written > DailyHours * HourMs)
                      => k \notin lastDaily.afterKeys
                /\ (v.kind = "json" /\ lastDaily.at - written < DailyHours * HourMs)
                      => k \in lastDaily.afterKeys
                /\ v.kind \in {"garbage", "empty"} => k \notin lastDaily.afterKeys

\* C27 witness: the store held 50 records, where the adaptive cleanup uses its 4-hour
\* horizon; the daily pass kept the records written between 4 and 6 hours before
\* and deleted the record whose value does not parse
C27_Witness ==
    /\ lastDaily.ran
    /\ Cardinality(NotificationKeys(lastDaily.before)) = 50
    /\ CutoffHours(50) = AggressiveHours
    /\ \E k \in lastDaily.afterKeys :
          /\ lastDaily.before[k].kind = "json"
          /\ lastDaily.at - NewDate(lastDaily.before[k].notifiedAt) > AggressiveHours * HourMs
    /\ \E k \in NotificationKeys(lastDaily.before) \ lastDaily.afterKeys :
          lastDaily.before[k].kind = "garbage"

\* C28: a run of the organizer without a failure and out of debug mode puts the chat
\* files of a prefix in a group of their own, apart from the regular files of the
\* prefix, and leaves every chat file in the target folder of its prefix whether or
\* not the prefix has its notes and recording; no message of any run names a chat
\* file or is about a chat group; and the message about a regular group names
\* exactly the regular files of its prefix.
C28_ChatFilesApart ==
    lastRun.ran =>
        LET listing == findMeetingFiles(lastRun.before)
            chat(i) == Includes(listing[i].title, ChatMarker)
            prefixOf(i) == findMatchingConfig(listing[i].title).prefix
        IN  /\ \A n \in DOMAIN lastRun.groups :
                  \A i \in DOMAIN listing :
                      listing[i].id \in lastRun.groups[n].ids =>
                          /\ lastRun.groups[n].key.chat = chat(i)
                          /\ lastRun.groups[n].key.prefix = prefixOf(i)
            /\ (lastRun.fault = NoMoverFault /\ ~lastRun.debug) =>
                  \A i \in DOMAIN listing :
                      chat(i) =>
                          lastRun.after[listing[i].id].parents
                              = {findMatchingConfig(listing[i].title).config.targetFolderId}
            /\ \A p \in DOMAIN RunPosts :
                  RunPosts[p].kind \in {"files", "debug"} =>
                      /\ ~RunPosts[p].about.chat
                      /\ RunPosts[p].files =
                            Titles(SelectSeq(listing, LAMBDA f :
                                /\ findMatchingConfig(f.title).prefix = RunPosts[p].about.prefix
                                /\ ~Includes(f.title, ChatMarker)))

\* C28 witness: the source folder held the sig-autoscaling chat file with the notes
\* and the recording of the prefix; the run moved all three and sent one message,
\* which names the notes and the recording
C28_Witness ==
    /\ lastRun.ran /\ lastRun.fault = NoMoverFault /\ ~lastRun.debug
    /\ Len(findMeetingFiles(lastRun.before)) = 3
    /\ \A id \in {4, 5, 6} :
          /\ id \in DOMAIN lastRun.before
          /\ lastRun.before[id].parents = {SOURCE_FOLDER_ID}
          /\ lastRun.after[id].parents = {"folder-sig-autoscaling"}
    /\ Len(lastRun.groups) = 2
    /\ Len(RunPosts) = 1
    /\ RunPosts[1].files = <<FileNames[4], FileNames[5]>>

-----------------------------------------------------------------------------
(* Properties of the meeting window at sub-second instants                 *)

\* C29: a tick finds a configured occurrence exactly when its start is at most 90.000
\* seconds away from the instant of the tick, before or after.
C29_ToleranceSymmetric ==
    lastTick.ran =>
        \A n \in DOMAIN calendar :
            findMatchingMeetingConfig(calendar[n].title) # NoConfig =>
                ((\E i \in DOMAIN lastTick.found : lastTick.found[i] = KeyOf(calendar[n]))
                    <=> Abs(calendar[n].startTime - lastTick.at) <= ToleranceSeconds * SecondMs)

\* the step is a run of monitorStorageHealth that could read the store
HealthRun == lastHealth' # lastHealth /\ lastHealth'.ran /\ ~lastHealth'.threw

\* the step adds one POST, a debug message to DEFAULT_WEBHOOK
HealthWarned ==
    /\ Len(sent') = Len(sent) + 1
    /\ SubSeq(sent', 1, Len(sent)) = sent
    /\ sent'[Len(sent')].kind = "debug"
    /\ sent'[Len(sent')].webhook = DEFAULT_WEBHOOK

\* C30: a run of monitorStorageHealth that can read the store sends its warning to
\* DEFAULT_WEBHOOK exactly when the store holds 40 or more properties, notification
\* records and others together, and sends nothing otherwise; the run completes whether
\* or not the POST succeeds, and no run changes the store.
C30_WarningFromFortyProperties ==
    [][/\ HealthRun =>
             /\ HealthWarned <=> Cardinality(DOMAIN props) >= 40
             /\ ~HealthWarned => sent' = sent
       /\ lastHealth' # lastHealth => props' = props]_vars

\* C30 witness: the store held 39 notification records and one other property, 40 in
\* all, and the warning was sent; the store is as it was
C30_Witness ==
    /\ lastHealth.ran /\ ~lastHealth.threw
    /\ lastHealth.notificationRecords = 39
    /\ lastHealth.otherProperties = 1
    /\ Len(sent) = lastHealth.sentBefore + 1
    /\ sent[Len(sent)].kind = "debug"
    /\ sent[Len(sent)].webhook = DEFAULT_WEBHOOK
    /\ props = lastHealth.before

-----------------------------------------------------------------------------
(* Properties of the order of the organizer's steps                        *)

\* the recording files among the ids, by the titles the run listed
RecordingsOf(ids) == {id \in ids : Includes(lastRun.before[id].title, RecordingMarker)}

\* C31: in a run out of debug mode, when a file of a group whose configuration enables
\* upload has left the source folder, every recording file of the group has been
\* accepted by the video service or carried the upload marker before the run; so a
\* group is not moved when the video service was unavailable.
C31_UploadBeforeMove ==
    (lastRun.ran /\ ~lastRun.debug) =>
        \A n \in DOMAIN lastRun.groups :
            LET ids == lastRun.groups[n].ids
                config == MEETING_CONFIGS[CHOOSE i \in DOMAIN MEETING_CONFIGS :
                              MEETING_CONFIGS[i].prefix = lastRun.groups[n].key.prefix]
            IN  (/\ config.uploadToYoutube
                 /\ \E id \in ids : lastRun.after[id].parents # lastRun.before[id].parents) =>
                    \A id \in RecordingsOf(ids) :
                        UploadsOf(id) # {} \/ lastRun.before[id].uploaded

-----------------------------------------------------------------------------
(* Properties of the cleanup cadence                                       *)

\* the ticks from the one that last ran the adaptive cleanup to the one at instant t:
\* the trigger fires once per scheduled minute
TicksSinceCleanup(t) == (Scheduled(t) - Scheduled(lastCleanup.at)) \div MinuteMs

\* C32: with one tick per scheduled minute, early or late by a few seconds, a tick
\* runs the adaptive cleanup exactly when it is the 10th tick after the one that ran
\* it last, and the cleanup is over before the tick looks for occurrences.
C32_CleanupEveryTenthTick ==
    [][(lastTick' # lastTick /\ lastCleanup.ran) =>
          /\ lastTick'.cleaned <=> TicksSinceCleanup(now) = CleanupEveryMinutes
          /\ lastTick'.cleaned => lastCleanup'.at = now]_vars

-----------------------------------------------------------------------------
(* Properties of the order of the calendar tick's steps                    *)

\* the records a tick has written: the stores the runs start from hold none that was
\* written as late as two minutes before the meeting
TickWritten ==
    {k \in NotificationKeys(props) :
        /\ props[k].kind = "json"
        /\ WrittenAt(props[k]) >= MeetingTime - 2 * MinuteMs}

\* C33: whenever the store holds a record that a tick wrote for an occurrence, every
\* destination of the occurrence has been sent the announcement of the occurrence, at
\* its own webhook, by a POST that did not throw.
C33_RecordOnlyAfterAllSends ==
    \A k \in TickWritten :
        \A e \in {e \in Matching : KeyOf(e) = k} :
            LET channels == getChannelsToNotify(findMatchingMeetingConfig(e.title))
            IN  \A c \in DOMAIN channels :
                    \E i \in Dispatches(k, channels[c].name) :
                        /\ sent[i].webhook = channels[c].webhook
                        /\ sent[i].outcome # "throw"

-----------------------------------------------------------------------------
(* Properties of items that match no configured prefix                     *)

\* the occurrences of the calendar, and the files of the drive, that match no prefix
Unmatched == {e \in Range(calendar) : findMatchingMeetingConfig(e.title) = NoConfig}

UnmatchedFiles == {id \in DOMAIN drive : findMatchingConfig(drive[id].title) = NoMatch}

ConfiguredPrefixes == {MEETING_CONFIGS[i].prefix : i \in DOMAIN MEETING_CONFIGS}

\* C34: an occurrence that matches no prefix has no POST of any kind about it, is not
\* among the occurrences a tick found and has no record; a file that matches no prefix
\* stays in the source folder without upload marker, is not uploaded and is named in
\* no message; and every announcement and every record a tick wrote is about an
\* occurrence that matches, every message about files about a configured prefix.
C34_NoMatchIsSilent ==
    /\ \A e \in Unmatched :
          /\ \A i \in DOMAIN sent : sent[i].about # KeyOf(e)
          /\ \A i \in DOMAIN lastTick.found : lastTick.found[i] # KeyOf(e)
          /\ KeyOf(e) \notin DOMAIN props
    /\ \A i \in DOMAIN sent :
          sent[i].kind = "meeting" => \E e \in Matching : KeyOf(e) = sent[i].about
    /\ \A k \in TickWritten : \E e \in Matching : KeyOf(e) = k
    /\ \A id \in UnmatchedFiles :
          /\ drive[id].parents = {SOURCE_FOLDER_ID}
          /\ ~drive[id].uploaded
          /\ UploadsOf(id) = {}
          /\ \A p \in DOMAIN posted :
                \A j \in DOMAIN posted[p].files : posted[p].files[j] # drive[id].title
    /\ \A p \in DOMAIN posted :
          posted[p].kind \in {"files", "debug"} => posted[p].about.prefix \in ConfiguredPrefixes

\* C34 witness: the tick inside the window of the team lunch and of the sig-autoscaling
\* meeting announced and recorded the latter alone, and the organizer moved the
\* community pair and left the budget file where it was
C34_Witness ==
    /\ lastTick.ran /\ EvLunch \in Unmatched
    /\ StartingNow(EvLunch.startTime, lastTick.at)
    /\ KeyOf(EvAutoscaling) \in DOMAIN props
    /\ Dispatches(KeyOf(EvAutoscaling), "#sig-autoscaling") # {}
    /\ lastRun.ran /\ ~lastRun.debug
    /\ 7 \in UnmatchedFiles
    /\ 7 \in InSource(lastRun.before)
    /\ 1 \in DOMAIN drive
    /\ drive[1].parents # {SOURCE_FOLDER_ID}
    /\ \E p \in DOMAIN posted : posted[p].kind = "files"

-----------------------------------------------------------------------------
(* Properties of the store shared with other properties                    *)

\* the properties of a store that are no notification records
OtherProperties(p) == [k \in DOMAIN p \ NotificationKeys(p) |-> p[k]]

\* C35: no step of the tick with its adaptive cleanup, of the daily pass or of
\* clearAllNotificationRecords removes or changes a property whose key does not begin
\* with 'notified_'; and the adaptive cleanup takes its horizon, and decides on the
\* emergency pass, from the number of notification records alone.
C35_OnlyNotificationKeysTouched ==
    /\ [][OtherProperties(props') = OtherProperties(props)]_vars
    /\ [](lastCleanup.ran =>
             LET records == Cardinality(NotificationKeys(lastCleanup.before))
             IN  /\ lastCleanup.cutoffHours = CutoffHours(records)
                 /\ lastCleanup.emergency
                      <=> records - Cardinality(lastCleanup.corrupted \cup lastCleanup.aged)
                             >= EmergencyCount)

\* C35 witness: the adaptive cleanup found 29 notification records among 32 properties,
\* took the 24-hour horizon and deleted the records older than that;
\* clearAllNotificationRecords then deleted the other records, and the three other
\* properties are all that is left
C35_Witness ==
    /\ lastCleanup.ran
    /\ lastCleanup.startCount = 29
    /\ Cardinality(DOMAIN lastCleanup.before) = 32
    /\ lastCleanup.cutoffHours = NormalHours
    /\ lastCleanup.aged # {}
    /\ lastCall.fn = "clearAllNotificationRecords"
    /\ lastCall.clearedCount > 0
    /\ props = OtherProperties(lastCleanup.before)
    /\ Cardinality(DOMAIN props) = 3

-----------------------------------------------------------------------------
(* Properties of cleanup and duplicate suppression together                *)

\* the occurrences inside the tolerance window of the last tick that had a record
\* when the tick's cleanup began
RecordedInWindow ==
    {e \in Matching : /\ StartingNow(e.startTime, lastTick.at)
                      /\ KeyOf(e) \in NotificationKeys(lastCleanup.before)}

\* C36: when a tick has run the adaptive cleanup, every occurrence that is inside the
\* tolerance window of the tick and had a record before the cleanup still has it after
\* the cleanup, and the tick has sent no announcement of it.
C36_CleanupKeepsWindowRecords ==
    (lastTick.ran /\ lastTick.cleaned /\ lastCleanup.at = lastTick.at) =>
        \A e \in RecordedInWindow :
            /\ KeyOf(e) \in lastCleanup.afterKeys
            /\ \A i \in DispatchesOf(KeyOf(e)) : i <= lastTick.sentBefore

-----------------------------------------------------------------------------
(* Properties of the manual test entry points                              *)

CalendarTests == {"checkCalendarAndNotifyDebug", "testNextMeetingNotification"}

\* the last test entry point announced and recorded the occurrence with key k, and the
\* last tick ran after it and found the occurrence inside its window
TestedThenTicked(k) ==
    /\ lastCall.fn \in CalendarTests
    /\ k \in lastCall.wrote
    /\ lastTick.ran
    /\ lastTick.sentBefore >= lastCall.sentAfter
    /\ \E i \in DOMAIN lastTick.found : lastTick.found[i] = k

\* the last tick or a handler after it posted the announcement of k to a webhook of
\* the configuration
ProductionDispatch(k) ==
    \E i \in DispatchesOf(k) : i > lastTick.sentBefore /\ sent[i].webhook # DEFAULT_WEBHOOK

TickOutcomes(k) ==
    {lastTick.outcomes[i].outcome :
        i \in {i \in DOMAIN lastTick.outcomes : lastTick.outcomes[i].key = k}}

C38_DebugFlagRestored ==
    lastCall.fn \in CalendarTests \cup {"testDebugMode"} =>
        lastCall.debugAfter = lastCall.debugBefore

-----------------------------------------------------------------------------
(* Properties of relocation                                                *)

\* C39: every file that a message of a run out of debug mode names is in the target
\* folder of its configuration, and nowhere else, when the run ends.
C39_AnnouncedFilesWereMoved ==
    (lastRun.ran /\ ~lastRun.debug) =>
        \A p \in DOMAIN RunPosts :
            RunPosts[p].kind = "files" =>
                \A id \in DOMAIN lastRun.after :
                    Announced(lastRun.after[id].title) =>
                        lastRun.after[id].parents =
                            {findMatchingConfig(lastRun.after[id].title).config.targetFolderId}

\* C40: whatever failed in the runs so far, every file is in exactly one folder: the
\* source folder or the target folder of its configuration.
C40_EveryFileInOneFolder ==
    \A id \in DOMAIN drive :
        \/ drive[id].parents = {SOURCE_FOLDER_ID}
        \/ drive[id].parents = {findMatchingConfig(drive[id].title).config.targetFolderId}

====
